---- MODULE Spec2Model ----
(***************************************************************************)
(* A model of the five command-line utilities of the repository:          *)
(*   Png2Icon/png2icon.py, Video2Gif/video2gif.py and the three QR code   *)
(*   generators (Url, Wifi, Contact Card).                                *)
(*                                                                        *)
(* Strings are sequences of one-character strings, so that the string     *)
(* operations of the code (lower, find, split, basename, splitext, join)  *)
(* are computed as the code computes them.  Paths are POSIX paths.        *)
(***************************************************************************)
EXTENDS Integers, Sequences, FiniteSets, TLC

(***************************************************************************)
(* Bounds of the model.                                                   *)
(***************************************************************************)
\* the minute part of an instant ranges over 0..MaxMinute
MaxMinute == 1
\* the second part of an instant ranges over 0..MaxSecond
MaxSecond == 1
\* at most this many operator interrupts are delivered to one invocation
MaxInterrupts == 2

(***************************************************************************)
(* Program constants.                                                     *)
(***************************************************************************)
\* logging severities
CRITICAL == 50
ERROR == 40
WARNING == 30
INFO == 20
DEBUG == 10
\* process exit statuses
EXIT_OK == 0
EXIT_CRASH == 1
EXIT_USAGE == 2
EXIT_SIGINT == 130

Procs == {1, 2}

Tools == {"png", "gif", "url", "wifi", "card"}
QRTools == {"url", "wifi", "card"}

MODULE_DRAWER_STYLE_SQUARE == "SquareModuleDrawer"
MODULE_DRAWER_STYLE_GAPPED_SQUARE == "GappedSquareModuleDrawer"
MODULE_DRAWER_STYLE_VERTICAL_BARS == "VerticalBarsDrawer"
MODULE_DRAWER_STYLE_HORIZONTAL_BARS == "HorizontalBarsDrawer"
MODULE_DRAWER_STYLE_ROUNDED == "RoundedModuleDrawer"
StyleConstants == {MODULE_DRAWER_STYLE_SQUARE, MODULE_DRAWER_STYLE_GAPPED_SQUARE,
                   MODULE_DRAWER_STYLE_VERTICAL_BARS, MODULE_DRAWER_STYLE_HORIZONTAL_BARS,
                   MODULE_DRAWER_STYLE_ROUNDED}

DEFAULT_QRCODE_FILENAME == <<"v","c","a","r","d","_","q","r",".","p","n","g">>
EMPTY_STRING == <<>>

(***************************************************************************)
(* String operations (str methods and os.path of the code).               *)
(***************************************************************************)
\* s[i:] of Python, for 1-based i
Drop(s, i) == SubSeq(s, i, Len(s))

\* whether sub occurs in s at (1-based) position i
OccursAt(s, sub, i) == /\ i >= 1
                       /\ i + Len(sub) - 1 <= Len(s)
                       /\ SubSeq(s, i, i + Len(sub) - 1) = sub

\* str.find: the 0-based index of the first occurrence of sub in s, or -1
Find(s, sub) ==
  LET hits == {i \in 1..(Len(s) + 1) : OccursAt(s, sub, i)}
  IN  IF hits = {} THEN -1
      ELSE (CHOOSE i \in hits : \A j \in hits : i <= j) - 1

\* str.rfind of one character: 0-based index of its last occurrence, or -1
RFindChar(s, c) ==
  LET hits == {i \in 1..Len(s) : s[i] = c}
  IN  IF hits = {} THEN -1
      ELSE (CHOOSE i \in hits : \A j \in hits : i >= j) - 1

UpperChars == <<"A","B","C","D","E","F","G","H","I","J","K","L","M",
                "N","O","P","Q","R","S","T","U","V","W","X","Y","Z">>
LowerChars == <<"a","b","c","d","e","f","g","h","i","j","k","l","m",
                "n","o","p","q","r","s","t","u","v","w","x","y","z">>

\* str.lower of one character
LowerChar(c) ==
  IF \E i \in 1..Len(UpperChars) : UpperChars[i] = c
  THEN LowerChars[CHOOSE i \in 1..Len(UpperChars) : UpperChars[i] = c]
  ELSE c

\* str.lower
Lower(s) == [i \in 1..Len(s) |-> LowerChar(s[i])]

\* str.split(sep) for a one-character separator: the list of the fields
RECURSIVE Split(_, _)
Split(s, sep) ==
  LET k == Find(s, <<sep>>)
  IN  IF k = -1 THEN <<s>>
      ELSE <<SubSeq(s, 1, k)>> \o Split(Drop(s, k + 2), sep)

\* posixpath.basename: what follows the last "/"
Basename(path) == Drop(path, RFindChar(path, "/") + 2)

\* posixpath.dirname: what precedes the last "/", trailing slashes removed
\* unless the head is made of slashes only
RECURSIVE RStripSlash(_)
RStripSlash(s) ==
  IF s # <<>> /\ s[Len(s)] = "/" THEN RStripSlash(SubSeq(s, 1, Len(s) - 1)) ELSE s

Dirname(path) ==
  LET head == SubSeq(path, 1, RFindChar(path, "/") + 1)
  IN  IF head # <<>> /\ (\E i \in 1..Len(head) : head[i] # "/")
      THEN RStripSlash(head)
      ELSE head

\* posixpath.splitext (genericpath._splitext): the extension starts at the
\* last "." that follows the last "/", unless only dots precede it in the name
Splitext(path) ==
  LET sepIndex == RFindChar(path, "/")
      dotIndex == RFindChar(path, ".")
  IN  IF dotIndex > sepIndex
         /\ \E i \in (sepIndex + 2)..dotIndex : path[i] # "."
      THEN <<SubSeq(path, 1, dotIndex), Drop(path, dotIndex + 1)>>
      ELSE <<path, <<>> >>

\* posixpath.join of two components
Join(a, b) ==
  IF b # <<>> /\ b[1] = "/" THEN b
  ELSE IF a = <<>> \/ a[Len(a)] = "/" THEN a \o b
  ELSE a \o <<"/">> \o b

\* whether path names something below directory dir
Inside(path, dir) ==
  /\ Len(path) > Len(dir) + 1
  /\ SubSeq(path, 1, Len(dir)) = dir
  /\ path[Len(dir) + 1] = "/"

\* whether s starts with pre
StartsWith(s, pre) == Len(pre) <= Len(s) /\ SubSeq(s, 1, Len(pre)) = pre

Digits == <<"0","1","2","3","4","5","6","7","8","9">>
\* a number below 10 rendered as text
Digit(n) == Digits[n + 1]

(***************************************************************************)
(* State.                                                                 *)
(***************************************************************************)
VARIABLES
  tool,         \* tool[p]: which of the five scripts invocation p runs
  argv,         \* argv[p]: sys.argv[1:] of invocation p
  cfgFile,      \* cfgFile[p]: the JSON configuration file p is pointed at
  srcOk,        \* srcOk[p]: whether the library call succeeds on p's input
  utc,          \* utc[p]: the instant read at import (module global utc)
  pc,           \* pc[p]: the statement invocation p is about to execute
  dirs,         \* the directories that exist below the working directory
  writes,       \* the files opened for writing so far, with the writer
  args,         \* args[p]: the namespace parse_args returned
  destFile,     \* destFile[p]: main's destFile (PNG2ICO, Video2Gif)
  objConfig,    \* objConfig[p]: main's objConfig, <<>> while unbound
  startBound,   \* startBound[p]: startLocalDatetime has been assigned
  logLevel,     \* logLevel[p]: the effective level of the logger
  logged,       \* logged[p]: the records that reached the two handlers
  exc,          \* exc[p]: the exception being handled or propagating
  exitStatus,   \* exitStatus[p]: <<>> while running, <<status>> afterwards
  interrupts,   \* interrupts[p]: operator interrupts delivered so far
  intrAt,       \* intrAt[p]: the statements during which they arrived
  libRaised,    \* libRaised[p]: the library call of the conversion raised
  fn            \* a function of the code applied on its own: input and result

vars == <<tool, argv, cfgFile, srcOk, utc, pc, dirs, writes, args, destFile,
          objConfig, startBound, logLevel, logged, exc, exitStatus,
          interrupts, intrAt, libRaised, fn>>

(***************************************************************************)
(* Module-level globals: the run identity and the paths derived from it.  *)
(***************************************************************************)
\* the instants datetime.now(timezone.utc) can return, to the second
Instants == [min : 0..MaxMinute, sec : 0..MaxSecond]

\* utc.strftime('%Y.%m.%d_%H.%M'): the fields down to the minute
StrftimeMinute(t) == <<Digit(t.min)>>
\* a file stamp whose format string lacks the seconds
StrftimeSecondNoSeconds(t) == <<Digit(t.min), ".", Digit(0)>>

\* utc.strftime('%Y.%m.%d_%H.%M.%S'): the same fields, then the seconds
StrftimeSecond(t) == <<Digit(t.min), ".", Digit(t.sec)>>

\* os.getcwd()
cwd == <<"/","w">>

ArtifactsDirName(t) ==
  CASE t = "png" -> <<"P","n","g","2","I","c","o","n","_","A","r","t","i","f","a","c","t","s">>
    [] t = "gif" -> <<"V","i","d","e","o","2","G","i","f","_","A","r","t","i","f","a","c","t","s">>
    [] OTHER     -> <<"Q","R","C","o","d","e","_","A","r","t","i","f","a","c","t","s">>

LogPrefix(t) ==
  CASE t = "png" -> <<"P","n","g","2","I","c","o","n","L","o","g","_">>
    [] t = "gif" -> <<"V","i","d","e","o","2","G","i","f","L","o","g","_">>
    [] OTHER     -> <<"Q","R","C","o","d","e","L","o","g","_">>

directoryDate(p) == StrftimeMinute(utc[p])
filenameDateTime(p) == StrftimeSecond(utc[p])

\* os.path.join(os.getcwd(), '<Tool>_Artifacts', directoryDate)
BaseDirectoryOf(t, dirStamp) == Join(Join(cwd, ArtifactsDirName(t)), dirStamp)
baseDirectory(p) == BaseDirectoryOf(tool[p], directoryDate(p))

\* os.path.join(logsDirectory, f'<Tool>Log_{filenameDateTime}z.log')
LogFileName(t, fileStamp) == LogPrefix(t) \o fileStamp \o <<"z",".","l","o","g">>
LOG_FILENAME(p) == Join(baseDirectory(p), LogFileName(tool[p], filenameDateTime(p)))

(***************************************************************************)
(* Logging.                                                               *)
(***************************************************************************)
Rec(lvl, msg, arg) == [lvl |-> lvl, msg |-> msg, arg |-> arg]

\* a logger that hands every record to the handlers, whatever its level
EmitUnfiltered(p, records) == logged[p] \o records

\* Logger.isEnabledFor: a record reaches the handlers (the log file and the
\* console, both attached to the root logger) iff its level is at least the
\* logger's effective level
Emit(p, records) ==
  logged[p] \o SelectSeq(records, LAMBDA r : r.lvl >= logLevel[p])

Logged(p, msg) == \E i \in 1..Len(logged[p]) : logged[p][i].msg = msg

\* the level of the two handlers basicConfig attaches: none is set, so a
\* handler passes every record the logger hands it
NOTSET == 0

\* what logging.FileHandler(filename=LOG_FILENAME, mode='w') has written
FileSink(p) == SelectSeq(logged[p], LAMBDA r : r.lvl >= NOTSET)

\* what logging.StreamHandler() has written to the console
ConsoleSink(p) == SelectSeq(logged[p], LAMBDA r : r.lvl >= NOTSET)

(***************************************************************************)
(* The file system.                                                       *)
(***************************************************************************)
\* a directory creation that stops at the parent
MakedirsParentOnly(path) == dirs \cup {Dirname(path)}

\* os.makedirs(path): creates the missing parents, then the leaf
MakedirsResult(path) == dirs \cup {Dirname(path), path}

\* what a log file holds, as far as the artifacts are to be told from it
LogData == [kind |-> "log", payload |-> <<>>, style |-> "", format |-> "", sizes |-> {}]

\* a file opened for writing by p (created, or truncated when present) and
\* given the content data
OpenW(path, p, data) == writes \cup {[path |-> path, by |-> p, data |-> data]}

(***************************************************************************)
(* Command-line arguments (argparse).                                     *)
(***************************************************************************)
OPT_VERBOSE == {<<"-","-","v","e","r","b","o","s","e">>, <<"-","v">>}
OPT_DESTFILE == {<<"-","-","d","e","s","t","f","i","l","e">>, <<"-","d","f">>}

\* the tools whose parser declares --destfile
DestFileTools == {"png", "gif", "card"}

\* the number of positional arguments the parser of tool t declares
NPositional(t) == IF t = "wifi" THEN 3 ELSE 1

\* the default of --destfile
DefaultDestArg(t) == IF t = "card" THEN DEFAULT_QRCODE_FILENAME ELSE EMPTY_STRING

\* sys.argv[0]
ScriptName(t) ==
  CASE t = "png"  -> <<"p","n","g","2","i","c","o","n",".","p","y">>
    [] t = "gif"  -> <<"V","i","d","e","o","2","G","i","f",".","p","y">>
    [] t = "url"  -> <<"U","r","l","Q","R","C","o","d","e","G","e","n","e","r","a","t","o","r",".","p","y">>
    [] t = "wifi" -> <<"W","i","f","i","Q","R","C","o","d","e","G","e","n","e","r","a","t","o","r",".","p","y">>
    [] OTHER      -> <<"C","o","n","t","a","c","t","C","a","r","d","Q","R","C","o","d","e","G","e","n","e","r","a","t","o","r",".","p","y">>

RECURSIVE ParseFrom(_, _, _)
ParseFrom(t, rest, acc) ==
  IF rest = <<>> THEN acc
  ELSE LET a == Head(rest)
       IN  IF a \in OPT_VERBOSE
           THEN ParseFrom(t, Tail(rest), [acc EXCEPT !.verbose = TRUE])
           ELSE IF a \in OPT_DESTFILE /\ t \in DestFileTools
           THEN IF Len(rest) >= 2
                THEN ParseFrom(t, Tail(Tail(rest)), [acc EXCEPT !.destfile = rest[2]])
                ELSE [acc EXCEPT !.ok = FALSE]
           ELSE IF a # <<>> /\ a[1] = "-"
           THEN [acc EXCEPT !.ok = FALSE]
           ELSE ParseFrom(t, Tail(rest), [acc EXCEPT !.pos = Append(@, a)])

\* parser.parse_args(): ok is FALSE where argparse reports an error and
\* raises SystemExit(2)
ParseArguments(t, av) ==
  LET r == ParseFrom(t, av, [ok |-> TRUE, pos |-> <<>>,
                             destfile |-> DefaultDestArg(t), verbose |-> FALSE])
  IN  [r EXCEPT !.ok = r.ok /\ Len(r.pos) = NPositional(t)]

\* GetCommandLine(): 'python' followed by every element of sys.argv
RECURSIVE SpaceJoined(_, _)
SpaceJoined(acc, rest) ==
  IF rest = <<>> THEN acc
  ELSE SpaceJoined(acc \o <<" ">> \o Head(rest), Tail(rest))

GetCommandLine(p) ==
  SpaceJoined(<<"p","y","t","h","o","n">>, <<ScriptName(tool[p])>> \o argv[p])

\* the log.debug records GetCommandLine emits: two for each element of sys.argv
GetCommandLineTrace(p) ==
  LET sysargv == <<ScriptName(tool[p])>> \o argv[p]
  IN  [i \in 1..(2 * Len(sysargv)) |-> Rec(DEBUG, "ArgTrace", sysargv[(i + 1) \div 2])]

(***************************************************************************)
(* Destination file name of PNG2ICO and Video2Gif.                        *)
(***************************************************************************)
OutputExt(t) == IF t = "gif" THEN <<".","g","i","f">> ELSE <<".","i","c","o">>

\* a --destfile accepted only when it ends with the extension
ResolveDestFileEndsWith(t, destArg, sourceFile) ==
  IF (Len(destArg) < 5)
     \/ (SubSeq(destArg, Len(destArg) - 3, Len(destArg)) # OutputExt(t))
  THEN Splitext(Basename(sourceFile))[1] \o OutputExt(t)
  ELSE destArg

\* a destination derived from the source path with its directories kept
ResolveDestFileKeepDirs(t, destArg, sourceFile) ==
  IF (Len(destArg) < 5) \/ (Find(destArg, OutputExt(t)) = -1)
  THEN Splitext(sourceFile)[1] \o OutputExt(t)
  ELSE destArg

\* main: "Set the destination filename"
ResolveDestFile(t, destArg, sourceFile) ==
  IF (Len(destArg) < 5) \/ (Find(destArg, OutputExt(t)) = -1)
  THEN Splitext(Basename(sourceFile))[1] \o OutputExt(t)
  ELSE destArg

(***************************************************************************)
(* Config of the QR tools.                                                *)
(***************************************************************************)
\* a resolution without the final else: the class attribute '' is kept for a
\* style name that is not recognised
ResolveModuleStyleNoDefault(raw) ==
  LET s == Lower(raw)
  IN  IF s = <<"g","a","p","p","e","d","s","q","u","a","r","e">> THEN MODULE_DRAWER_STYLE_GAPPED_SQUARE
      ELSE IF s = <<"v","e","r","t","i","c","a","l","b","a","r","s">> THEN MODULE_DRAWER_STYLE_VERTICAL_BARS
      ELSE IF s = <<"h","o","r","i","z","o","n","t","a","l","b","a","r","s">> THEN MODULE_DRAWER_STYLE_HORIZONTAL_BARS
      ELSE IF s = <<"r","o","u","n","d","e","d">> THEN MODULE_DRAWER_STYLE_ROUNDED
      ELSE IF s = <<"s","q","u","a","r","e">> THEN MODULE_DRAWER_STYLE_SQUARE
      ELSE ""

\* a style resolution that compares without lowering the configured string
ResolveModuleStyleCaseSensitive(raw) ==
  LET s == raw
  IN  IF s = <<"g","a","p","p","e","d","s","q","u","a","r","e">> THEN MODULE_DRAWER_STYLE_GAPPED_SQUARE
      ELSE IF s = <<"v","e","r","t","i","c","a","l","b","a","r","s">> THEN MODULE_DRAWER_STYLE_VERTICAL_BARS
      ELSE IF s = <<"h","o","r","i","z","o","n","t","a","l","b","a","r","s">> THEN MODULE_DRAWER_STYLE_HORIZONTAL_BARS
      ELSE IF s = <<"r","o","u","n","d","e","d">> THEN MODULE_DRAWER_STYLE_ROUNDED
      ELSE MODULE_DRAWER_STYLE_SQUARE

\* Config.__init__: the module style named by the configuration
ResolveModuleStyle(raw) ==
  LET s == Lower(raw)
  IN  IF s = <<"g","a","p","p","e","d","s","q","u","a","r","e">> THEN MODULE_DRAWER_STYLE_GAPPED_SQUARE
      ELSE IF s = <<"v","e","r","t","i","c","a","l","b","a","r","s">> THEN MODULE_DRAWER_STYLE_VERTICAL_BARS
      ELSE IF s = <<"h","o","r","i","z","o","n","t","a","l","b","a","r","s">> THEN MODULE_DRAWER_STYLE_HORIZONTAL_BARS
      ELSE IF s = <<"r","o","u","n","d","e","d">> THEN MODULE_DRAWER_STYLE_ROUNDED
      ELSE IF s = <<"s","q","u","a","r","e">> THEN MODULE_DRAWER_STYLE_SQUARE
      ELSE MODULE_DRAWER_STYLE_SQUARE

\* the keys Config.__init__ reads with configData['config'][key]
CommonKeys == {"FrontColor.r", "FrontColor.g", "FrontColor.b",
               "BackColor.r", "BackColor.g", "BackColor.b", "Size"}
KeysRead(t) ==
  CASE t = "url"  -> CommonKeys \cup {"Border", "ModuleStyle", "Url"}
    [] t = "wifi" -> CommonKeys \cup {"Border", "ModuleStyleWifi"}
    [] t = "card" -> CommonKeys \cup {"ModuleStyle", "FirstName", "LastName", "Title",
                                      "Organization", "Phone", "Email", "Url", "Note"}
    [] OTHER      -> {}
\* a constructor that catches the absence of no key
KeysNoneOptional(t) == {}

\* a constructor that catches the absence of every key
KeysAllOptional(t) == KeysRead(t)

\* the keys whose absence Config.__init__ catches
KeysOptional(t) == IF t = "card" THEN {"Note"} ELSE {}

NOTE_TEXT == <<"h","i">>

\* names derived with os.path.splitext instead of split(".")
CardDestNamesSplitext(destinationFile, stamp) ==
  LET parts == Splitext(destinationFile)
      dflt  == Split(DEFAULT_QRCODE_FILENAME, ".")
  IN  IF parts[2] # <<>>
      THEN [destFile |-> destinationFile,
            destFileTimestamp |-> parts[1] \o <<"_">> \o stamp \o parts[2],
            valid |-> TRUE]
      ELSE [destFile |-> DEFAULT_QRCODE_FILENAME,
            destFileTimestamp |-> dflt[1] \o <<"_">> \o stamp \o <<".">> \o dflt[2],
            valid |-> FALSE]

\* the names Config.__init__ derives from --destfile (contact card)
CardDestNames(destinationFile, stamp) ==
  LET parts == Split(destinationFile, ".")
      dflt  == Split(DEFAULT_QRCODE_FILENAME, ".")
  IN  IF Len(parts) >= 2
      THEN [destFile |-> destinationFile,
            destFileTimestamp |-> parts[1] \o <<"_">> \o stamp \o <<".">> \o parts[2],
            valid |-> TRUE]
      ELSE [destFile |-> DEFAULT_QRCODE_FILENAME,
            destFileTimestamp |-> dflt[1] \o <<"_">> \o stamp \o <<".">> \o dflt[2],
            valid |-> FALSE]

\* Config(configurationFile[, destinationFile]): ok is FALSE where the
\* constructor raises (open or json.load fails, a key is missing)
ConfigInit(t, cfg, destinationFile, stamp) ==
  IF ~cfg.readable \/ (cfg.missing \cap (KeysRead(t) \ KeysOptional(t))) # {}
  THEN [ok |-> FALSE]
  ELSE LET names == IF t = "card" THEN CardDestNames(destinationFile, stamp)
                    ELSE [destFile |-> (IF t = "url" THEN <<"Q","R","_","C","o","d","e","_","U","r","l","_">> ELSE <<"Q","R","_","C","o","d","e","_","W","i","f","i","_">>)
                                        \o stamp \o <<".","p","n","g">>,
                          destFileTimestamp |-> EMPTY_STRING,
                          valid |-> TRUE]
       IN  [ok |-> TRUE,
            config |-> [ModuleStyle |-> ResolveModuleStyle(cfg.ModuleStyle),
                        firstName |-> IF t = "card" THEN cfg.FirstName ELSE EMPTY_STRING,
                        lastName |-> IF t = "card" THEN cfg.LastName ELSE EMPTY_STRING,
                        note |-> IF t = "card" /\ "Note" \notin cfg.missing
                                 THEN NOTE_TEXT ELSE EMPTY_STRING,
                        wifiNetwork |-> EMPTY_STRING,
                        wifiPassword |-> EMPTY_STRING,
                        destFile |-> names.destFile,
                        destFileTimestamp |-> names.destFileTimestamp],
            logs |-> IF names.valid THEN <<>>
                     ELSE <<Rec(ERROR, "InvalidDestinationFilename", destinationFile)>>]

(***************************************************************************)
(* The inputs of an invocation.                                           *)
(***************************************************************************)
SrcPng == <<"l","o","g","o",".","p","n","g">>
SrcVideo == <<"c","l","i","p",".","m","p","4">>
CfgPath == <<"c",".","j","s","o","n">>
OptV == <<"-","v">>
OptVerbose == <<"-","-","v","e","r","b","o","s","e">>
OptDf == <<"-","d","f">>
OptDestfile == <<"-","-","d","e","s","t","f","i","l","e">>

\* the command lines tried for tool t; the last of each is one argparse rejects
ArgvChoices(t) ==
  CASE t = "png"  -> {<<SrcPng>>, <<SrcPng, OptV>>, <<SrcPng, OptDestfile, <<"m","y",".","i","c","o">>>>, <<>>}
    [] t = "gif"  -> {<<SrcVideo>>, <<SrcVideo, OptVerbose>>, <<SrcVideo, OptDf, <<"m","y",".","g","i","f">>>>, <<>>}
    [] t = "url"  -> {<<CfgPath>>, <<CfgPath, OptV>>, <<>>}
    [] t = "wifi" -> {<<CfgPath, <<"H","o","m","e","N","e","t">>, <<"s","e","c","r","e","t","1","2","3">>>>,
                      <<CfgPath, <<"H","o","m","e","N","e","t">>, <<"s","e","c","r","e","t","1","2","3">>, OptV>>, <<CfgPath>>}
    [] OTHER      -> {<<CfgPath>>, <<CfgPath, OptVerbose>>, <<CfgPath, OptDf, <<"c","a","r","d",".","p","n","g">>>>,
                      <<CfgPath, OptDf, <<"/","t","m","p","/","c",".","p","n","g">>>>,
                      <<CfgPath, OptDestfile, <<"n","o","d","o","t">>>>, <<>>}

\* the command line without options
DefaultArgv(t) ==
  CASE t = "png"  -> <<SrcPng>>
    [] t = "gif"  -> <<SrcVideo>>
    [] t = "wifi" -> <<CfgPath, <<"H","o","m","e","N","e","t">>, <<"s","e","c","r","e","t","1","2","3">>>>
    [] OTHER      -> <<CfgPath>>

Cfg(readable, missing, style) ==
  [readable |-> readable, missing |-> missing, ModuleStyle |-> style,
   FirstName |-> <<"A","d","a">>, LastName |-> <<"L","o","v","e","l","a","c","e">>]

GoodCfg == Cfg(TRUE, {}, <<"R","o","u","n","d","e","d">>)

\* the configuration files tried for tool t (PNG2ICO and Video2Gif read none)
CfgChoices(t) ==
  IF t \notin QRTools THEN {GoodCfg}
  ELSE {GoodCfg, Cfg(TRUE, {}, <<"c","i","r","c","l","e">>), Cfg(FALSE, {}, EMPTY_STRING),
        Cfg(TRUE, {"Size"}, <<"s","q","u","a","r","e">>)}
       \cup (IF t = "card" THEN {Cfg(TRUE, {"Note"}, <<"V","e","r","t","i","c","a","l","B","a","r","s">>)} ELSE {})

\* the directories that may be left from an earlier run
PriorDirs(t) ==
  LET parent == Join(cwd, ArtifactsDirName(t))
  IN  {{}, {parent}, {parent, BaseDirectoryOf(t, StrftimeMinute([min |-> 0, sec |-> 0]))}}

Unbound == <<>>

\* no function is being applied on its own
NoFn == [op |-> "none", t |-> "none", in |-> <<>>, out |-> <<>>]

\* the state of an invocation that has not started
InitProc ==
  /\ utc = [p \in Procs |-> [min |-> 0, sec |-> 0]]
  /\ writes = {}
  /\ args = [p \in Procs |-> Unbound]
  /\ destFile = [p \in Procs |-> EMPTY_STRING]
  /\ objConfig = [p \in Procs |-> Unbound]
  /\ startBound = [p \in Procs |-> FALSE]
  /\ logLevel = [p \in Procs |-> WARNING]
  /\ logged = [p \in Procs |-> <<>>]
  /\ exc = [p \in Procs |-> "none"]
  /\ exitStatus = [p \in Procs |-> <<>>]
  /\ interrupts = [p \in Procs |-> 0]
  /\ intrAt = [p \in Procs |-> <<>>]
  /\ libRaised = [p \in Procs |-> FALSE]

\* one invocation, with any command line, configuration and input file
Init ==
  /\ \E t \in Tools :
       /\ tool = [p \in Procs |-> t]
       /\ \E a \in ArgvChoices(t) : argv = [p \in Procs |-> a]
       /\ \E c \in CfgChoices(t) : cfgFile = [p \in Procs |-> c]
       /\ dirs \in PriorDirs(t)
  /\ \E b \in BOOLEAN : srcOk = [p \in Procs |-> b]
  /\ pc = [p \in Procs |-> IF p = 1 THEN "import" ELSE "absent"]
  /\ InitProc
  /\ fn = NoFn

\* two invocations started from the same working directory, each with its
\* default command line and a valid input
InitConc ==
  /\ tool \in [Procs -> Tools]
  /\ argv = [p \in Procs |-> DefaultArgv(tool[p])]
  /\ cfgFile = [p \in Procs |-> GoodCfg]
  /\ srcOk = [p \in Procs |-> TRUE]
  /\ dirs = {}
  /\ pc = [p \in Procs |-> "import"]
  /\ InitProc
  /\ fn = NoFn

(***************************************************************************)
(* The steps of main().                                                   *)
(***************************************************************************)
\* what no step of main changes
inputs == <<tool, argv, cfgFile, srcOk, fn>>

\* the statements inside main's try block
GuardedPcs == {"load_config", "assign_wifi", "start_time", "start_report", "convert",
               "success"}
\* the statements of main before its try block, and the module's import
PreflightPcs == {"import", "check_dir", "make_dir", "config_log", "banner", "parse"}

\* the process terminates with the given status
Terminate(p, status) ==
  /\ pc' = [pc EXCEPT ![p] = "exited"]
  /\ exitStatus' = [exitStatus EXCEPT ![p] = <<status>>]

\* module level: utc = datetime.now(timezone.utc) and the names derived from it
Import(p) ==
  /\ pc[p] = "import"
  /\ \E t \in Instants : utc' = [utc EXCEPT ![p] = t]
  /\ pc' = [pc EXCEPT ![p] = "check_dir"]
  /\ UNCHANGED <<inputs, dirs, writes, args, destFile, objConfig, startBound,
                 logLevel, logged, exc, exitStatus, interrupts, intrAt, libRaised>>

\* main: if not os.path.exists(logPath)
CheckDir(p) ==
  /\ pc[p] = "check_dir"
  /\ pc' = [pc EXCEPT ![p] = IF Dirname(LOG_FILENAME(p)) \in dirs
                             THEN "config_log" ELSE "make_dir"]
  /\ UNCHANGED <<inputs, utc, dirs, writes, args, destFile, objConfig, startBound,
                 logLevel, logged, exc, exitStatus, interrupts, intrAt, libRaised>>

\* main: os.makedirs(logPath), which raises FileExistsError when the leaf exists
MakeDirs(p) ==
  /\ pc[p] = "make_dir"
  /\ LET logPath == Dirname(LOG_FILENAME(p))
     IN  IF logPath \in dirs
         THEN /\ Terminate(p, EXIT_CRASH)
              /\ exc' = [exc EXCEPT ![p] = "FileExistsError"]
              /\ UNCHANGED dirs
         ELSE /\ dirs' = MakedirsResult(logPath)
              /\ pc' = [pc EXCEPT ![p] = "config_log"]
              /\ UNCHANGED <<exc, exitStatus>>
  /\ UNCHANGED <<inputs, utc, writes, args, destFile, objConfig, startBound,
                 logLevel, logged, interrupts, intrAt, libRaised>>

\* ConfigureLogging(): the FileHandler opens LOG_FILENAME with mode 'w', the
\* root logger's level becomes WARNING
ConfigureLogging(p) ==
  /\ pc[p] = "config_log"
  /\ writes' = OpenW(LOG_FILENAME(p), p, LogData)
  /\ logLevel' = [logLevel EXCEPT ![p] = WARNING]
  /\ pc' = [pc EXCEPT ![p] = "banner"]
  /\ UNCHANGED <<inputs, utc, dirs, args, destFile, objConfig, startBound,
                 logged, exc, exitStatus, interrupts, intrAt, libRaised>>

\* a main that goes on to parse_args without logging the banner
BannerSkipped(p) ==
  /\ pc[p] = "banner"
  /\ pc' = [pc EXCEPT ![p] = "parse"]
  /\ UNCHANGED <<inputs, utc, dirs, writes, args, destFile, objConfig, startBound,
                 logLevel, logged, exc, exitStatus, interrupts, intrAt, libRaised>>

\* main: the identification banner, copyright and version
Banner(p) ==
  /\ pc[p] = "banner"
  /\ logged' = [logged EXCEPT ![p] =
                  Emit(p, <<Rec(CRITICAL, "Banner", <<>>),
                            Rec(CRITICAL, "Copyright", <<>>),
                            Rec(CRITICAL, "Version", <<>>)>>)]
  /\ pc' = [pc EXCEPT ![p] = "parse"]
  /\ UNCHANGED <<inputs, utc, dirs, writes, args, destFile, objConfig, startBound,
                 logLevel, exc, exitStatus, interrupts, intrAt, libRaised>>

\* main: parse_args, the verbose setting, and the destination file name
ParseArgs(p) ==
  /\ pc[p] = "parse"
  /\ LET a == ParseArguments(tool[p], argv[p])
     IN  IF ~a.ok
         THEN /\ Terminate(p, EXIT_USAGE)
              /\ exc' = [exc EXCEPT ![p] = "SystemExit"]
              /\ UNCHANGED <<args, logLevel, destFile>>
         ELSE /\ args' = [args EXCEPT ![p] = <<a>>]
              /\ logLevel' = [logLevel EXCEPT ![p] = IF a.verbose THEN DEBUG ELSE @]
              /\ destFile' = [destFile EXCEPT ![p] =
                                IF tool[p] \in QRTools THEN @
                                ELSE ResolveDestFile(tool[p], a.destfile, a.pos[1])]
              /\ pc' = [pc EXCEPT ![p] = IF tool[p] \in QRTools
                                         THEN "load_config" ELSE "start_time"]
              /\ UNCHANGED <<exc, exitStatus>>
  /\ UNCHANGED <<inputs, utc, dirs, writes, objConfig, startBound,
                 logged, interrupts, intrAt, libRaised>>

\* main (QR tools): objConfig = Config(...), first statement of the try block
LoadConfig(p) ==
  /\ pc[p] = "load_config"
  /\ LET a == args[p][1]
         r == ConfigInit(tool[p], cfgFile[p], a.destfile, filenameDateTime(p))
     IN  IF ~r.ok
         THEN /\ exc' = [exc EXCEPT ![p] = "Exception"]
              /\ pc' = [pc EXCEPT ![p] = "except"]
              /\ UNCHANGED <<objConfig, logged>>
         ELSE /\ objConfig' = [objConfig EXCEPT ![p] = <<r.config>>]
              /\ logged' = [logged EXCEPT ![p] = Emit(p, r.logs)]
              /\ pc' = [pc EXCEPT ![p] = IF tool[p] = "wifi"
                                         THEN "assign_wifi" ELSE "start_time"]
              /\ UNCHANGED exc
  /\ UNCHANGED <<inputs, utc, dirs, writes, args, destFile, startBound,
                 logLevel, exitStatus, interrupts, intrAt, libRaised>>

\* a main that leaves the network name and the password unset
AssignCredentialsSkipped(p) ==
  /\ pc[p] = "assign_wifi"
  /\ pc' = [pc EXCEPT ![p] = "start_time"]
  /\ UNCHANGED <<inputs, utc, dirs, writes, args, destFile, objConfig, startBound,
                 logLevel, logged, exc, exitStatus, interrupts, intrAt, libRaised>>

\* main (WiFi tool): objConfig.wifiNetwork = wifiNetwork and
\* objConfig.wifiPassword = wifiPassword, after the constructor has returned
AssignCredentials(p) ==
  /\ pc[p] = "assign_wifi"
  /\ objConfig' = [objConfig EXCEPT ![p] =
                     <<[@[1] EXCEPT !.wifiNetwork = args[p][1].pos[2],
                                    !.wifiPassword = args[p][1].pos[3]]>>]
  /\ pc' = [pc EXCEPT ![p] = "start_time"]
  /\ UNCHANGED <<inputs, utc, dirs, writes, args, destFile, startBound,
                 logLevel, logged, exc, exitStatus, interrupts, intrAt, libRaised>>

\* main: startUtcDatetime and startLocalDatetime are assigned
StartTime(p) ==
  /\ pc[p] = "start_time"
  /\ startBound' = [startBound EXCEPT ![p] = TRUE]
  /\ pc' = [pc EXCEPT ![p] = "start_report"]
  /\ UNCHANGED <<inputs, utc, dirs, writes, args, destFile, objConfig,
                 logLevel, logged, exc, exitStatus, interrupts, intrAt, libRaised>>

\* a start report whose configuration fields are logged at INFO
ConfigFieldRecordsAtInfo(p) ==
  LET t == tool[p]
      c == objConfig[p][1]
  IN  IF t \notin QRTools
      THEN <<Rec(INFO, "SourceFile", args[p][1].pos[1]),
             Rec(INFO, "OutputFile", destFile[p])>>
      ELSE <<Rec(INFO, "QRCodeFile", c.destFile),
             Rec(INFO, "ModuleStyle", c.ModuleStyle),
             Rec(INFO, "VersionSize", <<>>)>>
           \o (IF t = "card"
               THEN <<Rec(INFO, "FirstName", c.firstName),
                      Rec(INFO, "LastName", c.lastName),
                      Rec(INFO, "Title", <<>>),
                      Rec(INFO, "Organization", <<>>),
                      Rec(INFO, "Phone", <<>>),
                      Rec(INFO, "Email", <<>>),
                      Rec(INFO, "Url", <<>>)>>
               ELSE <<Rec(INFO, "Border", <<>>)>>)
           \o (IF t = "url" THEN <<Rec(INFO, "Url", <<>>)>> ELSE <<>>)
           \o (IF t = "wifi"
               THEN <<Rec(INFO, "ModuleStyleOnboarding", EMPTY_STRING),
                      Rec(INFO, "WifiNetwork", c.wifiNetwork),
                      Rec(INFO, "WifiPassword", c.wifiPassword)>>
               ELSE <<>>)
           \o <<Rec(INFO, "FrontColor", <<>>), Rec(INFO, "BackColor", <<>>)>>

\* a start report that masks the password
ConfigFieldRecordsPasswordMasked(p) ==
  LET t == tool[p]
      c == objConfig[p][1]
  IN  IF t \notin QRTools
      THEN <<Rec(CRITICAL, "SourceFile", args[p][1].pos[1]),
             Rec(CRITICAL, "OutputFile", destFile[p])>>
      ELSE <<Rec(CRITICAL, "QRCodeFile", c.destFile),
             Rec(CRITICAL, "ModuleStyle", c.ModuleStyle),
             Rec(CRITICAL, "VersionSize", <<>>)>>
           \o (IF t = "card"
               THEN <<Rec(CRITICAL, "FirstName", c.firstName),
                      Rec(CRITICAL, "LastName", c.lastName),
                      Rec(CRITICAL, "Title", <<>>),
                      Rec(CRITICAL, "Organization", <<>>),
                      Rec(CRITICAL, "Phone", <<>>),
                      Rec(CRITICAL, "Email", <<>>),
                      Rec(CRITICAL, "Url", <<>>)>>
               ELSE <<Rec(CRITICAL, "Border", <<>>)>>)
           \o (IF t = "url" THEN <<Rec(CRITICAL, "Url", <<>>)>> ELSE <<>>)
           \o (IF t = "wifi"
               THEN <<Rec(CRITICAL, "ModuleStyleOnboarding", EMPTY_STRING),
                      Rec(CRITICAL, "WifiNetwork", c.wifiNetwork),
                      Rec(CRITICAL, "WifiPassword", <<"*","*","*">>)>>
               ELSE <<>>)
           \o <<Rec(CRITICAL, "FrontColor", <<>>), Rec(CRITICAL, "BackColor", <<>>)>>

\* the configuration fields main displays, after the command line
ConfigFieldRecords(p) ==
  LET t == tool[p]
      c == objConfig[p][1]
  IN  IF t \notin QRTools
      THEN <<Rec(CRITICAL, "SourceFile", args[p][1].pos[1]),
             Rec(CRITICAL, "OutputFile", destFile[p])>>
      ELSE <<Rec(CRITICAL, "QRCodeFile", c.destFile),
             Rec(CRITICAL, "ModuleStyle", c.ModuleStyle),
             Rec(CRITICAL, "VersionSize", <<>>)>>
           \o (IF t = "card"
               THEN <<Rec(CRITICAL, "FirstName", c.firstName),
                      Rec(CRITICAL, "LastName", c.lastName),
                      Rec(CRITICAL, "Title", <<>>),
                      Rec(CRITICAL, "Organization", <<>>),
                      Rec(CRITICAL, "Phone", <<>>),
                      Rec(CRITICAL, "Email", <<>>),
                      Rec(CRITICAL, "Url", <<>>)>>
               ELSE <<Rec(CRITICAL, "Border", <<>>)>>)
           \o (IF t = "url" THEN <<Rec(CRITICAL, "Url", <<>>)>> ELSE <<>>)
           \o (IF t = "wifi"
               THEN <<Rec(CRITICAL, "ModuleStyleOnboarding", EMPTY_STRING),
                      Rec(CRITICAL, "WifiNetwork", c.wifiNetwork),
                      Rec(CRITICAL, "WifiPassword", c.wifiPassword)>>
               ELSE <<>>)
           \o <<Rec(CRITICAL, "FrontColor", <<>>), Rec(CRITICAL, "BackColor", <<>>)>>

\* main: "Display program configuration data", then the line announcing
\* the conversion
StartReport(p) ==
  /\ pc[p] = "start_report"
  /\ logged' = [logged EXCEPT ![p] =
                  Emit(p, GetCommandLineTrace(p)
                          \o <<Rec(CRITICAL, "CommandLine", GetCommandLine(p))>>
                          \o ConfigFieldRecords(p)
                          \o <<Rec(CRITICAL, "Converting", <<>>)>>)]
  /\ pc' = [pc EXCEPT ![p] = "convert"]
  /\ UNCHANGED <<inputs, utc, dirs, writes, args, destFile, objConfig, startBound,
                 logLevel, exc, exitStatus, interrupts, intrAt, libRaised>>

(***************************************************************************)
(* The conversion and the handlers around it.                             *)
(***************************************************************************)
\* whether "except Exception" catches e: KeyboardInterrupt and SystemExit
\* derive from BaseException only
IsException(e) == e \notin {"KeyboardInterrupt", "SystemExit", "none"}

\* a Generate* without a handler of its own
GenerateCatchesNothing(e) == FALSE

\* a bare "except:" in Generate*, which would catch every exception
GenerateCatchesAll(e) == e # "none"

\* GenerateIcoFile / GenerateGifFile: "except Exception as ex" around the
\* library calls
GenerateCatches(e) == IsException(e)

\* a relative path names a file below the working directory of the process
AbsPath(path) == Join(cwd, path)

\* a payload that escapes the separators of the WIFI: syntax in its values
RECURSIVE Escaped(_)
Escaped(v) ==
  IF v = <<>> THEN <<>>
  ELSE (IF Head(v) \in {";", ":", ","} THEN <<"\\", Head(v)>> ELSE <<Head(v)>>)
       \o Escaped(Tail(v))
WifiPayloadEscaped(c) ==
  <<"W","I","F","I",":","S",":">> \o Escaped(c.wifiNetwork) \o <<";","T",":","W","P","A",";","P",":">> \o Escaped(c.wifiPassword)
  \o <<";","H",":","f","a","l","s","e",";",";">>

\* GenerateWifiQRCode: the text handed to qrWifi.add_data
WifiPayload(c) ==
  <<"W","I","F","I",":","S",":">> \o c.wifiNetwork \o <<";","T",":","W","P","A",";","P",":">> \o c.wifiPassword \o <<";","H",":","f","a","l","s","e",";",";">>

\* the values of the configuration file's Title, Organization, Phone, Email
\* and Url keys
TITLE_TEXT == <<"D","r">>
ORGANIZATION_TEXT == <<"O","r","g">>
PHONE_TEXT == <<"5","5","5">>
EMAIL_TEXT == <<"a","@","b">>
URL_TEXT == <<"u",".","i","o">>

\* a card whose formatted name puts the last name first
CardDataLastFirst(c) ==
  <<"B","E","G","I","N",":","V","C","A","R","D","\n","V","E","R","S","I","O","N",":","4",".","0","\n","N",":">> \o c.lastName \o <<";">> \o c.firstName \o <<";",";",";","\n","F","N",":">>
  \o c.lastName \o <<" ">> \o c.firstName
  \o <<"\n","T","I","T","L","E",":">> \o TITLE_TEXT \o <<"\n","O","R","G",":">> \o ORGANIZATION_TEXT
  \o <<"\n","T","E","L",";","T","Y","P","E","=","w","o","r","k",":">> \o PHONE_TEXT \o <<"\n","E","M","A","I","L",";","T","Y","P","E","=","w","o","r","k",":">> \o EMAIL_TEXT
  \o <<"\n","U","R","L",":">> \o URL_TEXT \o <<"\n","N","O","T","E",":">> \o c.note \o <<"\n","E","N","D",":","V","C","A","R","D">>

\* GenerateContactCard: cardData, the text handed to qrContact.add_data
CardData(c) ==
  <<"B","E","G","I","N",":","V","C","A","R","D","\n","V","E","R","S","I","O","N",":","4",".","0","\n","N",":">> \o c.lastName \o <<";">> \o c.firstName \o <<";",";",";","\n","F","N",":">>
  \o c.firstName \o <<" ">> \o c.lastName
  \o <<"\n","T","I","T","L","E",":">> \o TITLE_TEXT \o <<"\n","O","R","G",":">> \o ORGANIZATION_TEXT
  \o <<"\n","T","E","L",";","T","Y","P","E","=","w","o","r","k",":">> \o PHONE_TEXT \o <<"\n","E","M","A","I","L",";","T","Y","P","E","=","w","o","r","k",":">> \o EMAIL_TEXT
  \o <<"\n","U","R","L",":">> \o URL_TEXT \o <<"\n","N","O","T","E",":">> \o c.note \o <<"\n","E","N","D",":","V","C","A","R","D">>

\* Generate*QRCode: the if/elif chain over the configuration's module style.
\* The drawer handed to make_image, or "unbound" where no branch assigns
\* qr_img (the chain has no else)
ModuleDrawer(style) ==
  IF style = MODULE_DRAWER_STYLE_VERTICAL_BARS THEN "VerticalBarsDrawer"
  ELSE IF style = MODULE_DRAWER_STYLE_HORIZONTAL_BARS THEN "HorizontalBarsDrawer"
  ELSE IF style = MODULE_DRAWER_STYLE_GAPPED_SQUARE THEN "GappedSquareModuleDrawer"
  ELSE IF style = MODULE_DRAWER_STYLE_SQUARE THEN "SquareModuleDrawer"
  ELSE IF style = MODULE_DRAWER_STYLE_ROUNDED THEN "RoundedModuleDrawer"
  ELSE "unbound"

\* qr_img is bound when qr_img.save is reached
ImageBound(p) ==
  tool[p] \in QRTools => ModuleDrawer(objConfig[p][1].ModuleStyle) # "unbound"

\* the paths the conversion saves to: Generate*(...) of the five tools
ArtifactPaths(p) ==
  CASE tool[p] \notin QRTools -> {AbsPath(destFile[p])}
    [] tool[p] = "card" -> {Join(baseDirectory(p), objConfig[p][1].destFile),
                            Join(baseDirectory(p), objConfig[p][1].destFileTimestamp)}
    [] OTHER -> {Join(baseDirectory(p), objConfig[p][1].destFile)}

\* the side of the single frame PNG2ICO asks for: sizes=[(32, 32)]
ICO_SIZE == 32

\* a save that leaves the frame sizes to the library's default
RenderedDefaultSizes(p) ==
  [kind |-> "image", payload |-> args[p][1].pos[1], style |-> "",
   format |-> "ICO", sizes |-> {}]

\* what the library is asked to render and save: the data encoded or
\* converted, the module style, the file format and the frame sizes
Rendered(p) ==
  LET c == objConfig[p][1]
      img(payload, style, format, sizes) ==
        [kind |-> "image", payload |-> payload, style |-> style,
         format |-> format, sizes |-> sizes]
  IN  CASE tool[p] = "png"  -> img(args[p][1].pos[1], "", "ICO", {<<ICO_SIZE, ICO_SIZE>>})
        [] tool[p] = "gif"  -> img(args[p][1].pos[1], "", "GIF", {})
        [] tool[p] = "url"  -> img(URL_TEXT, ModuleDrawer(c.ModuleStyle), "PNG", {})
        [] tool[p] = "wifi" -> img(WifiPayload(c), ModuleDrawer(c.ModuleStyle), "PNG", {})
        [] OTHER            -> img(CardData(c), ModuleDrawer(c.ModuleStyle), "PNG", {})

\* the records the conversion function itself logs before the library renders
ConvertRecords(p) ==
  IF tool[p] = "card"
  THEN <<Rec(CRITICAL, "CardData", CardData(objConfig[p][1]))>>
  ELSE <<>>

\* main: the call of Generate*(...).  The library call raises when the input
\* cannot be converted; PNG2ICO and Video2Gif catch that inside Generate*.
\* qr_img.save raises UnboundLocalError when no branch has assigned qr_img
Convert(p) ==
  /\ pc[p] = "convert"
  /\ IF srcOk[p] /\ ImageBound(p)
     THEN /\ writes' = writes \cup {[path |-> f, by |-> p, data |-> Rendered(p)] :
                                      f \in ArtifactPaths(p)}
          /\ logged' = [logged EXCEPT ![p] = Emit(p, ConvertRecords(p))]
          /\ pc' = [pc EXCEPT ![p] = "success"]
          /\ UNCHANGED <<exc, libRaised>>
     ELSE /\ libRaised' = [libRaised EXCEPT ![p] = ~srcOk[p]]
          /\ UNCHANGED writes
          /\ IF tool[p] \notin QRTools /\ GenerateCatches("Exception")
             THEN /\ logged' = [logged EXCEPT ![p] =
                       Emit(p, <<Rec(ERROR, "ErrorProcessing", args[p][1].pos[1])>>)]
                  /\ pc' = [pc EXCEPT ![p] = "success"]
                  /\ UNCHANGED exc
             ELSE /\ logged' = [logged EXCEPT ![p] = Emit(p, ConvertRecords(p))]
                  /\ exc' = [exc EXCEPT ![p] = "Exception"]
                  /\ pc' = [pc EXCEPT ![p] = "except"]
  /\ UNCHANGED <<inputs, utc, dirs, args, destFile, objConfig, startBound,
                 logLevel, exitStatus, interrupts, intrAt>>

\* main: the line after the call ('Generated <destFile>' or 'Success')
Success(p) ==
  /\ pc[p] = "success"
  /\ logged' = [logged EXCEPT ![p] =
                  Emit(p, <<IF tool[p] \in QRTools
                            THEN Rec(CRITICAL, "Success", <<>>)
                            ELSE Rec(CRITICAL, "Generated", destFile[p])>>)]
  /\ pc' = [pc EXCEPT ![p] = "finally"]
  /\ UNCHANGED <<inputs, utc, dirs, writes, args, destFile, objConfig, startBound,
                 logLevel, exc, exitStatus, interrupts, intrAt, libRaised>>

\* main: "except KeyboardInterrupt" (banner, sys.exit(0)) and
\* "except Exception as error" (banner, message, call stack)
Handler(p) ==
  /\ pc[p] = "except"
  /\ IF exc[p] = "KeyboardInterrupt"
     THEN /\ logged' = [logged EXCEPT ![p] = Emit(p, <<Rec(CRITICAL, "AbortedByUser", <<>>)>>)]
          /\ exc' = [exc EXCEPT ![p] = "SystemExit"]
     ELSE /\ logged' = [logged EXCEPT ![p] =
                          Emit(p, <<Rec(CRITICAL, "GeneralError", <<>>),
                                    Rec(CRITICAL, "ErrorMessage", <<>>),
                                    Rec(CRITICAL, "CallStack", <<>>)>>)]
          /\ exc' = [exc EXCEPT ![p] = "none"]
  /\ pc' = [pc EXCEPT ![p] = "finally"]
  /\ UNCHANGED <<inputs, utc, dirs, writes, args, destFile, objConfig, startBound,
                 logLevel, exitStatus, interrupts, intrAt, libRaised>>

\* the level of the two timestamp lines of the final report
TimestampLevel(t) == IF t \in QRTools THEN INFO ELSE DEBUG

\* os.path.join(baseDirectory, <destination file name>) of the final report
ReportedArtifactPaths(p) ==
  IF tool[p] \notin QRTools THEN <<Join(baseDirectory(p), destFile[p])>>
  ELSE IF tool[p] = "card"
  THEN <<Join(baseDirectory(p), objConfig[p][1].destFile),
         Join(baseDirectory(p), objConfig[p][1].destFileTimestamp)>>
  ELSE <<Join(baseDirectory(p), objConfig[p][1].destFile)>>

FinalReportRecords(p) ==
  <<Rec(TimestampLevel(tool[p]), "StartedAt", <<>>),
    Rec(TimestampLevel(tool[p]), "CompletedAt", <<>>),
    Rec(CRITICAL, "ProcessingTime", <<>>)>>
  \o [i \in 1..Len(ReportedArtifactPaths(p)) |->
        Rec(CRITICAL, "ArtifactPath", ReportedArtifactPaths(p)[i])]
  \o <<Rec(CRITICAL, "LogFilePath", LOG_FILENAME(p)),
       Rec(CRITICAL, "CompletedBanner", <<>>)>>

\* the status with which the process ends once the finally block is done
StatusAfterFinally(e) ==
  CASE e = "none" -> EXIT_OK
    [] e = "SystemExit" -> EXIT_OK
    [] e = "KeyboardInterrupt" -> EXIT_SIGINT
    [] OTHER -> EXIT_CRASH

\* main: the finally block.  Its first statement reads startLocalDatetime,
\* which raises UnboundLocalError when the try block never assigned it
FinalReport(p) ==
  /\ pc[p] = "finally"
  /\ IF ~startBound[p]
     THEN /\ exc' = [exc EXCEPT ![p] = "UnboundLocalError"]
          /\ Terminate(p, EXIT_CRASH)
          /\ UNCHANGED logged
     ELSE /\ logged' = [logged EXCEPT ![p] = Emit(p, FinalReportRecords(p))]
          /\ Terminate(p, StatusAfterFinally(exc[p]))
          /\ UNCHANGED exc
  /\ UNCHANGED <<inputs, utc, dirs, writes, args, destFile, objConfig, startBound,
                 logLevel, interrupts, intrAt, libRaised>>

\* a main whose try statement encloses the conversion call alone
InterruptCaughtAroundCallOnly(p) ==
  /\ pc[p] \in PreflightPcs \cup GuardedPcs \cup {"except", "finally"}
  /\ interrupts[p] < MaxInterrupts
  /\ interrupts' = [interrupts EXCEPT ![p] = @ + 1]
  /\ intrAt' = [intrAt EXCEPT ![p] = Append(@, pc[p])]
  /\ IF pc[p] = "convert"
     THEN /\ exc' = [exc EXCEPT ![p] = "KeyboardInterrupt"]
          /\ pc' = [pc EXCEPT ![p] = "except"]
          /\ UNCHANGED <<logged, exitStatus>>
     ELSE IF pc[p] = "except"
     THEN /\ exc' = [exc EXCEPT ![p] = "KeyboardInterrupt"]
          /\ pc' = [pc EXCEPT ![p] = "finally"]
          /\ UNCHANGED <<logged, exitStatus>>
     ELSE /\ exc' = [exc EXCEPT ![p] = "KeyboardInterrupt"]
          /\ Terminate(p, EXIT_SIGINT)
          /\ UNCHANGED logged
  /\ UNCHANGED <<inputs, utc, dirs, writes, args, destFile, objConfig, startBound,
                 logLevel, libRaised>>

\* the operator presses Ctrl-C: KeyboardInterrupt is raised in the statement
\* the process is executing
Interrupt(p) ==
  /\ pc[p] \in PreflightPcs \cup GuardedPcs \cup {"except", "finally"}
  /\ interrupts[p] < MaxInterrupts
  /\ interrupts' = [interrupts EXCEPT ![p] = @ + 1]
  /\ intrAt' = [intrAt EXCEPT ![p] = Append(@, pc[p])]
  /\ IF pc[p] = "convert" /\ tool[p] \notin QRTools /\ GenerateCatches("KeyboardInterrupt")
     THEN \* swallowed by the handler inside Generate*
          /\ logged' = [logged EXCEPT ![p] =
               Emit(p, <<Rec(ERROR, "ErrorProcessing", args[p][1].pos[1])>>)]
          /\ pc' = [pc EXCEPT ![p] = "success"]
          /\ UNCHANGED <<exc, exitStatus>>
     ELSE IF pc[p] \in GuardedPcs
     THEN \* raised inside the try block: main's handlers are searched
          /\ exc' = [exc EXCEPT ![p] = "KeyboardInterrupt"]
          /\ pc' = [pc EXCEPT ![p] = "except"]
          /\ UNCHANGED <<logged, exitStatus>>
     ELSE IF pc[p] = "except"
     THEN \* raised inside a handler: propagates once the finally block is done
          /\ exc' = [exc EXCEPT ![p] = "KeyboardInterrupt"]
          /\ pc' = [pc EXCEPT ![p] = "finally"]
          /\ UNCHANGED <<logged, exitStatus>>
     ELSE \* raised outside the try statement, or inside the finally block
          /\ exc' = [exc EXCEPT ![p] = "KeyboardInterrupt"]
          /\ Terminate(p, EXIT_SIGINT)
          /\ UNCHANGED logged
  /\ UNCHANGED <<inputs, utc, dirs, writes, args, destFile, objConfig, startBound,
                 logLevel, libRaised>>

(***************************************************************************)
(* Specifications.                                                        *)
(***************************************************************************)
Next ==
  \E p \in Procs :
    \/ Import(p)
    \/ CheckDir(p)
    \/ MakeDirs(p)
    \/ ConfigureLogging(p)
    \/ Banner(p)
    \/ ParseArgs(p)
    \/ LoadConfig(p)
    \/ AssignCredentials(p)
    \/ StartTime(p)
    \/ StartReport(p)
    \/ Convert(p)
    \/ Success(p)
    \/ Handler(p)
    \/ FinalReport(p)
    \/ Interrupt(p)

\* one invocation, its inputs and the operator's interrupts unconstrained
Spec == Init /\ [][Next]_vars

\* the steps of an invocation that meets no failure and no interrupt
NextConc ==
  \E p \in Procs :
    \/ Import(p)
    \/ CheckDir(p)
    \/ MakeDirs(p)
    \/ ConfigureLogging(p)
    \/ Banner(p)
    \/ ParseArgs(p)
    \/ LoadConfig(p)
    \/ AssignCredentials(p)
    \/ StartTime(p)
    \/ StartReport(p)
    \/ Convert(p)
    \/ Success(p)
    \/ FinalReport(p)

\* two invocations running concurrently from the same working directory
SpecConc == InitConc /\ [][NextConc]_vars

(***************************************************************************)
(* Properties of one invocation, and of two concurrent ones.              *)
(***************************************************************************)
Exited(p) == pc[p] = "exited"

\* p's run entered main's try block: parse_args returned
EnteredTry(p) == args[p] # Unbound

\* the final report: processing time, artifact path, log path, closing banner
FinalReportLogged(p) ==
  /\ Logged(p, "ProcessingTime")
  /\ Logged(p, "ArtifactPath")
  /\ Logged(p, "LogFilePath")
  /\ Logged(p, "CompletedBanner")

\* every interrupt p received arrived while the conversion call was running
InterruptsOnlyInConversion(p) == \A i \in 1..Len(intrAt[p]) : intrAt[p][i] = "convert"

\* C1: every run that entered the guarded block has logged the final report
\* when it ends, whether the block completed, the conversion was interrupted,
\* or any statement of the block raised.
C1_FinalReportAlwaysLogged ==
  \A p \in Procs :
    (Exited(p) /\ EnteredTry(p) /\ InterruptsOnlyInConversion(p)) => FinalReportLogged(p)

\* C2: when the library call of the conversion raises, the run ends with
\* status 0, having logged the error message and the 'General Error' banner
\* with the call stack.
C2_ConversionErrorReported ==
  \A p \in Procs :
    (Exited(p) /\ libRaised[p] /\ interrupts[p] = 0)
      => /\ exitStatus[p] = <<EXIT_OK>>
         /\ Logged(p, "ErrorMessage") \/ Logged(p, "ErrorProcessing")
         /\ Logged(p, "GeneralError")
         /\ Logged(p, "CallStack")

\* C3: an operator interrupt arriving during the conversion step (and no
\* other) leaves 'aborted by user' in the log and ends the process with
\* status 0.
C3_InterruptDuringConversion ==
  \A p \in Procs :
    (Exited(p) /\ intrAt[p] = <<"convert">>)
      => /\ Logged(p, "AbortedByUser")
         /\ exitStatus[p] = <<EXIT_OK>>

\* a PNG2ICO or Video2Gif run interrupted during the conversion has ended
C3_Witness ==
  \E p \in Procs :
    /\ Exited(p)
    /\ intrAt[p] = <<"convert">>
    /\ tool[p] \in {"png", "gif"}
    /\ Logged(p, "AbortedByUser")

\* C4: every file an invocation writes (log file, output artifacts) lies
\* inside that invocation's baseDirectory.
C4_WritesInsideBaseDirectory ==
  \A w \in writes : Inside(w.path, baseDirectory(w.by))

\* C5: two invocations running concurrently from the same working directory
\* never open the same path for writing.
C5_NoCollision ==
  \A w1 \in writes : \A w2 \in writes : (w1.path = w2.path) => (w1.by = w2.by)

\* the directory part of session setup has returned for p
SetupReturned(p) ==
  pc[p] \in {"config_log", "banner", "parse", "except", "finally"} \cup GuardedPcs

\* C6: session setup creates baseDirectory, with its missing parents, when it
\* is absent and raises nothing when it is present; baseDirectory exists when
\* the setup has returned.
C6_SetupCreatesBaseDirectory ==
  \A p \in Procs :
    /\ exc[p] # "FileExistsError"
    /\ SetupReturned(p) => /\ baseDirectory(p) \in dirs
                           /\ Dirname(baseDirectory(p)) \in dirs

\* setup has returned for a run whose baseDirectory no earlier run left behind
C6_Witness ==
  \E p \in Procs :
    /\ pc[p] = "config_log"
    /\ utc[p].min > 0
    /\ baseDirectory(p) \in dirs

\* the module-level names of p have been computed
Imported(p) == pc[p] \notin {"absent", "import"}

\* C7: the log file path lies inside the invocation's baseDirectory, its file
\* stamp begins with the directory stamp, and two invocations of one tool
\* whose timestamps differ at second resolution have different log paths.
C7_LogPathUniquePerSecond ==
  \A p \in Procs :
    Imported(p) =>
      /\ Inside(LOG_FILENAME(p), baseDirectory(p))
      /\ Dirname(LOG_FILENAME(p)) = baseDirectory(p)
      /\ StartsWith(filenameDateTime(p), directoryDate(p))
      /\ \A q \in Procs :
           (Imported(q) /\ tool[q] = tool[p] /\ utc[q] # utc[p])
             => LOG_FILENAME(q) # LOG_FILENAME(p)

\* two runs of one tool started in the same minute, at different seconds,
\* have both opened their log files
C7_Witness ==
  \E p \in Procs : \E q \in Procs :
    /\ p # q
    /\ tool[p] = tool[q]
    /\ utc[p].min = utc[q].min
    /\ utc[p].sec # utc[q].sec
    /\ \E w \in writes : w.path = LOG_FILENAME(p) /\ w.by = p
    /\ \E w \in writes : w.path = LOG_FILENAME(q) /\ w.by = q

(***************************************************************************)
(* Functions of the code applied on their own, over bounded inputs.       *)
(***************************************************************************)
\* the longest configured style string tried, beyond the five names and
\* their variants
MaxStyleLen == 2
\* the longest --destfile value tried
MaxDestLen == 5
\* the longest source path tried
MaxSrcLen == 3
\* the longest network name and password tried
MaxCredLen == 2

\* the strings over alphabet A of length at most n
Strs(A, n) == UNION {[1..k -> A] : k \in 0..n}

\* no invocation runs while a function is applied on its own
InitIdle ==
  /\ tool = [p \in Procs |-> "png"]
  /\ argv = [p \in Procs |-> <<>>]
  /\ cfgFile = [p \in Procs |-> GoodCfg]
  /\ srcOk = [p \in Procs |-> TRUE]
  /\ dirs = {}
  /\ pc = [p \in Procs |-> "absent"]
  /\ InitProc

idle == <<tool, argv, cfgFile, srcOk, utc, pc, dirs, writes, args, destFile,
          objConfig, startBound, logLevel, logged, exc, exitStatus,
          interrupts, intrAt, libRaised>>

\* the instant used where a function needs the file stamp
AnInstant == [min |-> 0, sec |-> 0]

(* ----- module style --------------------------------------------------- *)
StyleNames == {<<"g","a","p","p","e","d","s","q","u","a","r","e">>, <<"v","e","r","t","i","c","a","l","b","a","r","s">>, <<"h","o","r","i","z","o","n","t","a","l","b","a","r","s">>, <<"r","o","u","n","d","e","d">>, <<"s","q","u","a","r","e">>}

\* str.upper of one character
UpperChar(c) ==
  IF \E i \in 1..Len(LowerChars) : LowerChars[i] = c
  THEN UpperChars[CHOOSE i \in 1..Len(LowerChars) : LowerChars[i] = c]
  ELSE c

\* the name, the name in capitals, the name with one letter in capitals, and
\* near misses: one character dropped, replaced or added
StyleVariants(n) ==
  {n, [i \in 1..Len(n) |-> UpperChar(n[i])]}
  \cup {[n EXCEPT ![k] = UpperChar(n[k])] : k \in 1..Len(n)}
  \cup {[n EXCEPT ![k] = "_"] : k \in 1..Len(n)}
  \cup {SubSeq(n, 1, Len(n) - 1), Tail(n), n \o <<"s">>, <<" ">> \o n, n \o <<" ">>}

StyleInputs ==
  UNION {StyleVariants(n) : n \in StyleNames}
  \cup Strs({"s", "S", "0"}, MaxStyleLen)
  \cup {<<"c","i","r","c","l","e">>, <<"G","a","p","p","e","d"," ","S","q","u","a","r","e">>, <<"R","o","u","n","d","e","d","M","o","d","u","l","e","D","r","a","w","e","r">>}

InitStyle ==
  /\ InitIdle
  /\ \E t \in QRTools : \E raw \in StyleInputs :
       fn = [op |-> "style", t |-> t, in |-> raw, out |-> <<>>]

\* Config(...) on a configuration file whose style key holds fn.in
ApplyStyle ==
  /\ fn.op = "style"
  /\ fn.out = <<>>
  /\ fn' = [fn EXCEPT !.out =
              <<ConfigInit(fn.t, Cfg(TRUE, {}, fn.in), DefaultDestArg(fn.t),
                           StrftimeSecond(AnInstant))>>]
  /\ UNCHANGED idle

NextStyle == ApplyStyle

SpecStyle == InitStyle /\ [][NextStyle]_vars

(* ----- destination file name ------------------------------------------ *)
\* the characters of the expected extension, so that every placement of it
\* in a short string is tried
DestAlphabet(t) == {OutputExt(t)[i] : i \in 1..Len(OutputExt(t))}

\* --destfile values with a directory, with the extension in capitals, and
\* with the extension before the end
DestExamples(t) ==
  {<<"o","u","t","/","m","y">> \o OutputExt(t),
   <<"M","Y">> \o [i \in 1..Len(OutputExt(t)) |-> UpperChar(OutputExt(t)[i])],
   <<"m","y">> \o OutputExt(t) \o <<".","b","a","k">>}

InitDest ==
  /\ InitIdle
  /\ \E t \in {"png", "gif"} :
       \E d \in Strs(DestAlphabet(t), MaxDestLen) \cup DestExamples(t) :
         \E src \in Strs({"a", ".", "/"}, MaxSrcLen) :
           fn = [op |-> "dest", t |-> t, in |-> [destfile |-> d, sourcefile |-> src],
                 out |-> <<>>]

\* main's destination file name for --destfile fn.in.destfile
ApplyDest ==
  /\ fn.op = "dest"
  /\ fn.out = <<>>
  /\ fn' = [fn EXCEPT !.out = <<ResolveDestFile(fn.t, fn.in.destfile, fn.in.sourcefile)>>]
  /\ UNCHANGED idle

NextDest == ApplyDest

SpecDest == InitDest /\ [][NextDest]_vars

(* ----- WiFi payload ---------------------------------------------------- *)
CredInputs(example) == Strs({"a", ";", "\\", "-"}, MaxCredLen) \cup {example}

InitWifi ==
  /\ InitIdle
  /\ \E n \in CredInputs(<<"H","o","m","e","N","e","t">>) : \E pw \in CredInputs(<<"s","e","c","r","e","t","1","2","3">>) :
       \E raw \in {<<"R","o","u","n","d","e","d">>, <<"s","q","u","a","r","e">>, <<"V","E","R","T","I","C","A","L","B","A","R","S">>, <<"c","i","r","c","l","e">>} :
         fn = [op |-> "wifi", t |-> "wifi",
               in |-> [network |-> n, password |-> pw, style |-> raw], out |-> <<>>]

\* the WiFi tool from its command line to the text given to the QR encoder:
\* parse_args, Config, the two assignments of main, GenerateWifiQRCode.
\* Nothing is encoded when parse_args rejects the command line
ApplyWifi ==
  /\ fn.op = "wifi"
  /\ fn.out = <<>>
  /\ LET a == ParseArguments("wifi", <<CfgPath, fn.in.network, fn.in.password>>)
         r == ConfigInit("wifi", Cfg(TRUE, {}, fn.in.style), a.destfile,
                         StrftimeSecond(AnInstant))
     IN  IF ~a.ok
         THEN fn' = [fn EXCEPT !.out = <<[ok |-> FALSE, style |-> "", payload |-> <<>>]>>]
         ELSE LET c == [r.config EXCEPT !.wifiNetwork = a.pos[2],
                                        !.wifiPassword = a.pos[3]]
              IN  fn' = [fn EXCEPT !.out = <<[ok |-> TRUE, style |-> c.ModuleStyle,
                                              payload |-> WifiPayload(c)]>>]
  /\ UNCHANGED idle

NextWifi == ApplyWifi

SpecWifi == InitWifi /\ [][NextWifi]_vars

(***************************************************************************)
(* Properties of the functions.                                           *)
(***************************************************************************)
\* c is the lower-case letter l or its capital
SameLetter(c, l) == c = l \/ c = UpperChar(l)

\* s equals the lower-case name n up to the case of its letters
CaseInsensitiveEq(s, n) ==
  /\ Len(s) = Len(n)
  /\ \A i \in 1..Len(n) : SameLetter(s[i], n[i])

StyleTable ==
  {[name |-> <<"g","a","p","p","e","d","s","q","u","a","r","e">>, style |-> MODULE_DRAWER_STYLE_GAPPED_SQUARE],
   [name |-> <<"v","e","r","t","i","c","a","l","b","a","r","s">>, style |-> MODULE_DRAWER_STYLE_VERTICAL_BARS],
   [name |-> <<"h","o","r","i","z","o","n","t","a","l","b","a","r","s">>, style |-> MODULE_DRAWER_STYLE_HORIZONTAL_BARS],
   [name |-> <<"r","o","u","n","d","e","d">>, style |-> MODULE_DRAWER_STYLE_ROUNDED],
   [name |-> <<"s","q","u","a","r","e">>, style |-> MODULE_DRAWER_STYLE_SQUARE]}

\* C8: a configured style string that equals one of the five names up to
\* case resolves to that style; every other string resolves to the square
\* style, and the construction raises nothing.
C8_ModuleStyleResolution ==
  (fn.op = "style" /\ fn.out # <<>>) =>
    LET r == fn.out[1]
    IN  /\ r.ok
        /\ \A e \in StyleTable :
             CaseInsensitiveEq(fn.in, e.name) => r.config.ModuleStyle = e.style
        /\ (\A e \in StyleTable : ~CaseInsensitiveEq(fn.in, e.name))
             => r.config.ModuleStyle = MODULE_DRAWER_STYLE_SQUARE

\* a string that names no style has been resolved, and a name written in
\* capitals is among the inputs
C8_Witness ==
  /\ fn.op = "style"
  /\ fn.in = <<"c","i","r","c","l","e">>
  /\ fn.out # <<>>
  /\ fn.out[1].config.ModuleStyle = MODULE_DRAWER_STYLE_SQUARE
  /\ <<"R","O","U","N","D","E","D">> \in StyleInputs

\* sub occurs somewhere in s
Contains(s, sub) == \E i \in 1..Len(s) : OccursAt(s, sub, i)

NoSlash(s) == \A i \in 1..Len(s) : s[i] # "/"

\* stem is base without its extension: the extension is what starts at the
\* last "." of base, provided a character other than "." precedes that "."
IsRootOf(stem, base) ==
  /\ Len(stem) <= Len(base)
  /\ SubSeq(base, 1, Len(stem)) = stem
  /\ LET e == Drop(base, Len(stem) + 1)
     IN  IF e = <<>>
         THEN ~\E i \in 2..Len(base) :
                  base[i] = "." /\ \E j \in 1..(i - 1) : base[j] # "."
         ELSE /\ e[1] = "."
              /\ \A i \in 2..Len(e) : e[i] # "."
              /\ \E j \in 1..Len(stem) : stem[j] # "."

\* base is the last component of path: what follows its last "/"
IsLastComponentOf(base, path) ==
  /\ NoSlash(base)
  /\ \E k \in 0..Len(path) :
       /\ Drop(path, k + 1) = base
       /\ k = 0 \/ path[k] = "/"

ExpectedExt(t) == IF t = "png" THEN <<".","i","c","o">> ELSE <<".","g","i","f">>

\* C9: when the --destfile value is shorter than 5 characters or does not
\* contain the expected extension, the destination is the last component of
\* the source path, without its extension, followed by the extension.
C9_DefaultDestination ==
  (/\ fn.op = "dest"
   /\ fn.out # <<>>
   /\ Len(fn.in.destfile) < 5 \/ ~Contains(fn.in.destfile, ExpectedExt(fn.t)))
  => \E k \in 0..Len(fn.in.sourcefile) : \E m \in 0..Len(fn.in.sourcefile) :
       LET base == Drop(fn.in.sourcefile, k + 1)
           stem == SubSeq(base, 1, m)
       IN  /\ IsLastComponentOf(base, fn.in.sourcefile)
           /\ m <= Len(base)
           /\ IsRootOf(stem, base)
           /\ fn.out[1] = stem \o ExpectedExt(fn.t)

\* a --destfile of four characters that is the extension itself, with a
\* source below a directory: the destination comes from the source's name
C9_Witness ==
  /\ fn.op = "dest"
  /\ fn.t = "png"
  /\ fn.in.destfile = <<".","i","c","o">>
  /\ fn.in.sourcefile = <<"a","/","a">>
  /\ fn.out = <<<<"a",".","i","c","o">>>>

WIFI_HEAD == <<"W","I","F","I",":","S",":">>
WIFI_MID == <<";","T",":","W","P","A",";","P",":">>
WIFI_TAIL == <<";","H",":","f","a","l","s","e",";",";">>

\* C10: the text encoded by the WiFi tool is 'WIFI:S:', the network name as
\* given, ';T:WPA;P:', the password as given, ';H:false;;', for every module
\* style.
C10_WifiPayload ==
  (fn.op = "wifi" /\ fn.out # <<>> /\ fn.out[1].ok) =>
    LET n  == fn.in.network
        pw == fn.in.password
        x  == fn.out[1].payload
        a  == Len(WIFI_HEAD)
        b  == a + Len(n)
        c  == b + Len(WIFI_MID)
        d  == c + Len(pw)
    IN  /\ Len(x) = d + Len(WIFI_TAIL)
        /\ SubSeq(x, 1, a) = WIFI_HEAD
        /\ SubSeq(x, a + 1, b) = n
        /\ SubSeq(x, b + 1, c) = WIFI_MID
        /\ SubSeq(x, c + 1, d) = pw
        /\ Drop(x, d + 1) = WIFI_TAIL
        /\ (n = <<"H","o","m","e","N","e","t">> /\ pw = <<"s","e","c","r","e","t","1","2","3">>)
             => x = <<"W","I","F","I",":","S",":","H","o","m","e","N","e","t",";","T",":","W","P","A",";","P",":","s","e","c","r","e","t","1","2","3",";","H",":","f","a","l","s","e",";",";">>

\* the example of the specification has been encoded
C10_Witness ==
  /\ fn.op = "wifi"
  /\ fn.in = [network |-> <<"H","o","m","e","N","e","t">>, password |-> <<"s","e","c","r","e","t","1","2","3">>, style |-> <<"R","o","u","n","d","e","d">>]
  /\ fn.out # <<>>
  /\ fn.out[1].ok
  /\ fn.out[1].style = MODULE_DRAWER_STYLE_ROUNDED
  /\ fn.out[1].payload = <<"W","I","F","I",":","S",":","H","o","m","e","N","e","t",";","T",":","W","P","A",";","P",":","s","e","c","r","e","t","1","2","3",";","H",":","f","a","l","s","e",";",";">>


(***************************************************************************)
(* The contact card's payload, over bounded names.                        *)
(***************************************************************************)
\* the longest first or last name tried, beyond the example's
MaxNameLen == 2

NameInputs(example) == Strs({"a", ";", "\n"}, MaxNameLen) \cup {example}

InitCard ==
  /\ InitIdle
  /\ \E f \in NameInputs(<<"A","d","a">>) : \E l \in NameInputs(<<"L","o","v","e","l","a","c","e">>) :
       \E noNote \in BOOLEAN :
         fn = [op |-> "card", t |-> "card",
               in |-> [FirstName |-> f, LastName |-> l, noNote |-> noNote],
               out |-> <<>>]

\* the contact-card tool from its configuration file to the text given to
\* the QR encoder: Config, GenerateContactCard
ApplyCard ==
  /\ fn.op = "card"
  /\ fn.out = <<>>
  /\ LET cfg == [Cfg(TRUE, IF fn.in.noNote THEN {"Note"} ELSE {}, <<"R","o","u","n","d","e","d">>)
                   EXCEPT !.FirstName = fn.in.FirstName, !.LastName = fn.in.LastName]
         r == ConfigInit("card", cfg, DEFAULT_QRCODE_FILENAME, StrftimeSecond(AnInstant))
     IN  fn' = [fn EXCEPT !.out = <<[ok |-> r.ok, payload |-> CardData(r.config)]>>]
  /\ UNCHANGED idle

NextCard == ApplyCard

SpecCard == InitCard /\ [][NextCard]_vars

\* s ends with suffix
EndsWith(s, suffix) ==
  /\ Len(suffix) <= Len(s)
  /\ SubSeq(s, Len(s) - Len(suffix) + 1, Len(s)) = suffix

\* text stands in s between two line breaks
HasLine(s, text) == Contains(s, <<"\n">> \o text \o <<"\n">>)

\* C11: for every configured first name f and last name l the card's payload
\* begins with BEGIN:VCARD and VERSION:4.0, ends with END:VCARD, and holds the
\* lines 'FN:' f ' ' l and 'N:' l ';' f ';;;'.
C11_VCardPayload ==
  (fn.op = "card" /\ fn.out # <<>>) =>
    LET f == fn.in.FirstName
        l == fn.in.LastName
        x == fn.out[1].payload
    IN  /\ fn.out[1].ok
        /\ StartsWith(x, <<"B","E","G","I","N",":","V","C","A","R","D","\n","V","E","R","S","I","O","N",":","4",".","0","\n">>)
        /\ EndsWith(x, <<"\n","E","N","D",":","V","C","A","R","D">>)
        /\ HasLine(x, <<"F","N",":">> \o f \o <<" ">> \o l)
        /\ HasLine(x, <<"N",":">> \o l \o <<";">> \o f \o <<";",";",";">>)
        /\ (f = <<"A","d","a">> /\ l = <<"L","o","v","e","l","a","c","e">>) => HasLine(x, <<"F","N",":","A","d","a"," ","L","o","v","e","l","a","c","e">>)

\* the card of Ada Lovelace has been encoded
C11_Witness ==
  /\ fn.op = "card"
  /\ fn.in.FirstName = <<"A","d","a">>
  /\ fn.in.LastName = <<"L","o","v","e","l","a","c","e">>
  /\ fn.out # <<>>
  /\ HasLine(fn.out[1].payload, <<"F","N",":","A","d","a"," ","L","o","v","e","l","a","c","e">>)
  /\ HasLine(fn.out[1].payload, <<"N",":","L","o","v","e","l","a","c","e",";","A","d","a",";",";",";">>)


\* the artifacts p's conversion has saved
ArtifactsOf(p) == {w \in writes : w.by = p /\ w.data.kind = "image"}

\* C12: after a contact-card run whose conversion completed normally, two
\* files exist under baseDirectory, one named as the resolved destination
\* file and one with the timestamped name, both holding the same rendering.
C12_TwoCardFiles ==
  \A p \in Procs :
    (tool[p] = "card" /\ ArtifactsOf(p) # {}) =>
      \E w1 \in ArtifactsOf(p) : \E w2 \in ArtifactsOf(p) :
        /\ w1.path # w2.path
        /\ w1.path = baseDirectory(p) \o <<"/">> \o objConfig[p][1].destFile
        /\ w2.path = baseDirectory(p) \o <<"/">> \o objConfig[p][1].destFileTimestamp
        /\ Inside(w1.path, baseDirectory(p))
        /\ Inside(w2.path, baseDirectory(p))
        /\ w1.data = w2.data


\* every interrupt p received arrived inside main's try block
InterruptsOnlyInTry(p) ==
  \A i \in 1..Len(intrAt[p]) : intrAt[p][i] \in GuardedPcs

\* C13: a run that entered the guarded block ends with status 0, whether the
\* block completed, was interrupted by the operator, or raised; a non-zero
\* status comes only from a failure before the block.
C13_ExitStatusZero ==
  \A p \in Procs :
    (Exited(p) /\ EnteredTry(p) /\ InterruptsOnlyInTry(p))
      => exitStatus[p] = <<EXIT_OK>>


(***************************************************************************)
(* Two invocations of one tool with any command line and configuration.   *)
(***************************************************************************)
\* two invocations of the same tool, given the same command line and
\* configuration file, started from the same working directory
InitFaults ==
  /\ \E t \in Tools :
       /\ tool = [p \in Procs |-> t]
       /\ \E a \in ArgvChoices(t) : argv = [p \in Procs |-> a]
       /\ \E c \in CfgChoices(t) : cfgFile = [p \in Procs |-> c]
  /\ srcOk = [p \in Procs |-> TRUE]
  /\ dirs = {}
  /\ pc = [p \in Procs |-> "import"]
  /\ InitProc
  /\ fn = NoFn

\* the steps of an invocation that no operator interrupts
NextFaults ==
  \E p \in Procs :
    \/ Import(p)
    \/ CheckDir(p)
    \/ MakeDirs(p)
    \/ ConfigureLogging(p)
    \/ Banner(p)
    \/ ParseArgs(p)
    \/ LoadConfig(p)
    \/ AssignCredentials(p)
    \/ StartTime(p)
    \/ StartReport(p)
    \/ Convert(p)
    \/ Success(p)
    \/ Handler(p)
    \/ FinalReport(p)

SpecFaults == InitFaults /\ [][NextFaults]_vars

\* p's command line is one the parser rejects
BadArguments(p) == ~ParseArguments(tool[p], argv[p]).ok

\* p's configuration file cannot be read, or lacks the required key Size
BadConfiguration(p) ==
  /\ tool[p] \in QRTools
  /\ ~BadArguments(p)
  /\ ~cfgFile[p].readable \/ "Size" \in cfgFile[p].missing

\* the creation of p's directory failed
DirectoryCreationFailed(p) == exc[p] = "FileExistsError"

\* C14 (as stated): a run that met invalid arguments, an unreadable
\* configuration file, a missing required key or a directory-creation failure
\* ended uncaught, with a non-zero status, and logged no 'General Error'
\* banner.
C14_PreflightNeverSoft ==
  \A p \in Procs :
    (Exited(p) /\ (BadArguments(p) \/ BadConfiguration(p) \/ DirectoryCreationFailed(p)))
      => /\ exitStatus[p] # <<EXIT_OK>>
         /\ ~Logged(p, "GeneralError")

\* C14 (amended): invalid arguments and a directory-creation failure end the
\* run uncaught, with a non-zero status and no 'General Error' banner; an
\* unreadable configuration file or a missing required key is raised inside
\* the guarded block of the QR tools and is reported with the 'General Error'
\* banner and the call stack.
C14_PreflightAmended ==
  \A p \in Procs :
    /\ (Exited(p) /\ (DirectoryCreationFailed(p) \/ BadArguments(p)))
         => /\ exitStatus[p] \in {<<EXIT_CRASH>>, <<EXIT_USAGE>>}
            /\ ~EnteredTry(p)
            /\ ~Logged(p, "GeneralError")
    /\ (Exited(p) /\ BadConfiguration(p) /\ ~DirectoryCreationFailed(p))
         => /\ EnteredTry(p)
            /\ Logged(p, "GeneralError")
            /\ Logged(p, "CallStack")

\* of two runs given an unreadable configuration file, one failed to create
\* the directory and the other went on to report the configuration failure
C14_Witness ==
  \E p \in Procs : \E q \in Procs :
    /\ Exited(p) /\ DirectoryCreationFailed(p)
    /\ Exited(q) /\ BadConfiguration(q) /\ ~cfgFile[q].readable
    /\ Logged(q, "GeneralError")


\* the log file p's logger has opened
LogFilesOf(p) == {w \in writes : w.by = p /\ w.data.kind = "log"}

\* C15: PNG2ICO asks the image library for the ICO format with the single
\* size 32x32, whatever the source; for the source logo.png without
\* --destfile the output is named logo.ico and the log file is created under
\* Png2Icon_Artifacts/<minute stamp>/.
C15_IcoRequest ==
  \A p \in Procs :
    tool[p] = "png" =>
      /\ \A w \in ArtifactsOf(p) :
           /\ w.data.format = "ICO"
           /\ w.data.sizes = {<<32, 32>>}
           /\ w.data.payload = args[p][1].pos[1]
      /\ argv[p] = <<<<"l","o","g","o",".","p","n","g">>>> =>
           /\ \A w \in ArtifactsOf(p) : Basename(w.path) = <<"l","o","g","o",".","i","c","o">>
           /\ \A w \in LogFilesOf(p) :
                Dirname(w.path) = <<"/","w","/","P","n","g","2","I","c","o","n","_","A","r","t","i","f","a","c","t","s","/">> \o StrftimeMinute(utc[p])
           /\ pc[p] \in GuardedPcs => LogFilesOf(p) # {}

\* a PNG2ICO run on logo.png without --destfile has converted and ended
C15_Witness ==
  \E p \in Procs :
    /\ tool[p] = "png"
    /\ argv[p] = <<<<"l","o","g","o",".","p","n","g">>>>
    /\ Exited(p)
    /\ \E w \in ArtifactsOf(p) : Basename(w.path) = <<"l","o","g","o",".","i","c","o">>
    /\ LogFilesOf(p) # {}


\* p's session is initialised: its directory exists and its log file is open
SessionInitialised(p) == baseDirectory(p) \in dirs /\ LogFilesOf(p) # {}

\* C16 (as stated): the arguments are parsed first; no directory or log file
\* is created and no banner is logged before the arguments have been parsed
\* successfully.
C16_ParseFirst ==
  \A p \in Procs :
    (\/ Imported(p) /\ utc[p].min # 0 /\ baseDirectory(p) \in dirs
     \/ LogFilesOf(p) # {}
     \/ Logged(p, "Banner"))
      => args[p] # Unbound

\* C16 (amended): the session is initialised first (directory created, log
\* file opened), then the banner is logged, then the arguments are parsed (and
\* in the QR tools the configuration loaded), then the resolved configuration
\* is logged, then the conversion call is made, then its result, and the
\* elapsed time last; a run whose arguments are rejected has already created
\* the directory and the log file and logged the banner.
C16_StepOrder ==
  \A p \in Procs :
    /\ LogFilesOf(p) # {} => baseDirectory(p) \in dirs
    /\ Logged(p, "Banner") => SessionInitialised(p)
    /\ args[p] # Unbound => Logged(p, "Banner")
    /\ (Exited(p) /\ exc[p] = "SystemExit" /\ args[p] = Unbound)
         => SessionInitialised(p) /\ Logged(p, "Banner")
    /\ objConfig[p] # Unbound => args[p] # Unbound
    /\ Logged(p, "CommandLine")
         => args[p] # Unbound /\ (tool[p] \in QRTools => objConfig[p] # Unbound)
    /\ (ArtifactsOf(p) # {} \/ libRaised[p]) => Logged(p, "Converting")
    /\ (Logged(p, "Success") \/ Logged(p, "Generated"))
         => Logged(p, "Converting") /\ pc[p] \in {"finally", "exited"}
    /\ Logged(p, "ProcessingTime")
         => pc[p] = "exited" /\ logged[p][Len(logged[p])].msg = "CompletedBanner"

\* a run whose command line the parser rejected has ended, leaving its
\* directory, its log file and the banner
C16_Witness ==
  \E p \in Procs :
    /\ Exited(p)
    /\ BadArguments(p)
    /\ exitStatus[p] = <<EXIT_USAGE>>
    /\ SessionInitialised(p)
    /\ Logged(p, "Banner")


\* how many records with message msg p has logged
TimesLogged(p, msg) == Cardinality({i \in 1..Len(logged[p]) : logged[p][i].msg = msg})

\* the outcomes of the action p has reported: completed, aborted, failed
OutcomesReported(p) ==
  {o \in {"Completed", "Aborted", "Failed"} :
     \/ o = "Completed" /\ (Logged(p, "Success") \/ Logged(p, "Generated"))
     \/ o = "Aborted" /\ Logged(p, "AbortedByUser")
     \/ o = "Failed" /\ Logged(p, "GeneralError")}

\* C17: a run goes Idle, SessionStarted, ActionRunning, exactly one of
\* Completed / Aborted / Failed, ReportFinalized: the conversion is started
\* at most once, at most one outcome is reported, and a run that entered the
\* guarded block ends only with one outcome reported and the report finalised.
C17_StateMachine ==
  \A p \in Procs :
    /\ TimesLogged(p, "Converting") <= 1
    /\ Cardinality(OutcomesReported(p)) <= 1
    /\ pc[p] = "convert" => OutcomesReported(p) = {}
    /\ (Exited(p) /\ EnteredTry(p) /\ InterruptsOnlyInConversion(p))
         => /\ Cardinality(OutcomesReported(p)) = 1
            /\ FinalReportLogged(p)
            /\ logged[p][Len(logged[p])].msg = "CompletedBanner"


\* the artifact paths printed in p's final report
PathsReported(p) ==
  {logged[p][i].arg : i \in {j \in 1..Len(logged[p]) : logged[p][j].msg = "ArtifactPath"}}

\* C18: the artifact paths printed in the final report are the paths at
\* which the conversion wrote its output.
C18_ReportedPathIsWrittenPath ==
  \A p \in Procs :
    (ArtifactsOf(p) # {} /\ Logged(p, "ArtifactPath"))
      => PathsReported(p) = {w.path : w \in ArtifactsOf(p)}


\* C19: of two concurrent invocations that resolve to the same baseDirectory,
\* neither fails in session setup, however their checks of the directory and
\* their creations of it interleave.
C19_ConcurrentSetup ==
  \A p \in Procs : \A q \in Procs :
    (p # q /\ Imported(p) /\ Imported(q) /\ baseDirectory(p) = baseDirectory(q))
      => /\ ~DirectoryCreationFailed(p)
         /\ (Exited(p) => EnteredTry(p))


\* what the constructor returned for p: Config(configFile[, destFile])
Constructed(p) ==
  ConfigInit(tool[p], cfgFile[p], args[p][1].destfile, filenameDateTime(p)).config

\* C20 (as stated): no field of the conversion request is assigned after its
\* construction has returned: the Config object is what the constructor
\* returned, the destination of PNG2ICO and Video2Gif what main resolved.
C20_NeverAssignedAfterConstruction ==
  \A p \in Procs :
    /\ objConfig[p] # Unbound => objConfig[p][1] = Constructed(p)
    /\ (tool[p] \notin QRTools /\ args[p] # Unbound)
         => destFile[p] = ResolveDestFile(tool[p], args[p][1].destfile, args[p][1].pos[1])

\* C20 (amended): the request is fully built before the start time is taken
\* and the action uses it, and no field is assigned from then on; in the WiFi
\* tool main assigns the network name and the password after the constructor
\* has returned, and only those two fields.
C20_BuiltBeforeUse ==
  \A p \in Procs :
    /\ (tool[p] \notin QRTools /\ args[p] # Unbound)
         => destFile[p] = ResolveDestFile(tool[p], args[p][1].destfile, args[p][1].pos[1])
    /\ (tool[p] \in QRTools /\ (pc[p] = "start_time" \/ startBound[p]))
         => /\ objConfig[p] # Unbound
            /\ objConfig[p][1] =
                 IF tool[p] = "wifi"
                 THEN [Constructed(p) EXCEPT !.wifiNetwork = args[p][1].pos[2],
                                             !.wifiPassword = args[p][1].pos[3]]
                 ELSE Constructed(p)
    /\ (objConfig[p] # Unbound /\ tool[p] # "wifi") => objConfig[p][1] = Constructed(p)
    /\ (objConfig[p] # Unbound /\ tool[p] = "wifi")
         => [objConfig[p][1] EXCEPT !.wifiNetwork = EMPTY_STRING,
                                    !.wifiPassword = EMPTY_STRING] = Constructed(p)

\* a WiFi run is converting with the network name main stored in the object
\* the constructor had returned without it
C20_Witness ==
  \E p \in Procs :
    /\ tool[p] = "wifi"
    /\ pc[p] = "convert"
    /\ Constructed(p).wifiNetwork = EMPTY_STRING
    /\ objConfig[p][1].wifiNetwork = <<"H","o","m","e","N","e","t">>


(***************************************************************************)
(* Severities of the start report and of the diagnostics.                 *)
(***************************************************************************)
\* the lines of the start report of tool t: the banner lines, the echoed
\* command line and the configuration fields
StartReportMessages(t) ==
  {"Banner", "Copyright", "Version", "CommandLine"}
  \cup (CASE t \in {"png", "gif"} -> {"SourceFile", "OutputFile"}
          [] t = "url"  -> {"QRCodeFile", "ModuleStyle", "VersionSize", "Border", "Url",
                            "FrontColor", "BackColor"}
          [] t = "wifi" -> {"QRCodeFile", "ModuleStyle", "ModuleStyleOnboarding",
                            "VersionSize", "Border", "WifiNetwork", "WifiPassword", "FrontColor", "BackColor"}
          [] OTHER      -> {"QRCodeFile", "ModuleStyle", "VersionSize", "FirstName",
                            "LastName", "Title", "Organization", "Phone", "Email", "Url",
                            "FrontColor", "BackColor"})

\* sink (a sequence of records) holds message m at level lvl
Holds(sink, m, lvl) == \E i \in 1..Len(sink) : sink[i].msg = m /\ sink[i].lvl = lvl

StartReportDone(p) == pc[p] \in {"convert", "success"}

\* C21: once the start report is done, every one of its messages (banner,
\* copyright, version, echoed command line, each configuration field of the
\* tool) has been logged at CRITICAL and is in the log file and on the
\* console, whether or not --verbose was given
C21_StartReportAtTopSeverity ==
  \A p \in Procs :
    StartReportDone(p) =>
      \A m \in StartReportMessages(tool[p]) :
        /\ Holds(FileSink(p), m, CRITICAL)
        /\ Holds(ConsoleSink(p), m, CRITICAL)
        /\ \A i \in 1..Len(logged[p]) : logged[p][i].msg = m => logged[p][i].lvl = CRITICAL

\* the start report of a WiFi run without --verbose is done
C21_Witness ==
  \E p \in Procs :
    /\ StartReportDone(p)
    /\ tool[p] = "wifi"
    /\ ~args[p][1].verbose
    /\ logLevel[p] = WARNING
    /\ Holds(FileSink(p), "WifiNetwork", CRITICAL)


\* the run of p was given -v / --verbose, and parse_args has returned
Verbose(p) == args[p] # Unbound /\ args[p][1].verbose

\* the number of records of sink with message m
CountOf(sink, m) == Cardinality({i \in 1..Len(sink) : sink[i].msg = m})

\* C22: without --verbose no record below WARNING (the per-argument trace of
\* the command line, the start and end timestamps) is in the log file or on
\* the console; with --verbose the two trace records of every command-line
\* element and the two timestamps, all logged after the flag was applied,
\* are in both sinks
C22_VerbosityThreshold ==
  \A p \in Procs :
    /\ ~Verbose(p) =>
         /\ \A i \in 1..Len(FileSink(p)) : FileSink(p)[i].lvl >= WARNING
         /\ \A i \in 1..Len(ConsoleSink(p)) : ConsoleSink(p)[i].lvl >= WARNING
         /\ CountOf(FileSink(p), "ArgTrace") = 0
         /\ CountOf(FileSink(p), "StartedAt") = 0
         /\ CountOf(FileSink(p), "CompletedAt") = 0
    /\ Verbose(p) =>
         /\ StartReportDone(p) =>
              /\ CountOf(FileSink(p), "ArgTrace") = 2 * (Len(argv[p]) + 1)
              /\ CountOf(ConsoleSink(p), "ArgTrace") = 2 * (Len(argv[p]) + 1)
         /\ FinalReportLogged(p) =>
              \A m \in {"StartedAt", "CompletedAt"} :
                /\ \E lvl \in {DEBUG, INFO} : Holds(FileSink(p), m, lvl)
                /\ \E lvl \in {DEBUG, INFO} : Holds(ConsoleSink(p), m, lvl)

\* a --verbose run of PNG2ICO has ended with its timestamps in the log file
C22_Witness ==
  \E p \in Procs :
    /\ Exited(p)
    /\ Verbose(p)
    /\ tool[p] = "png"
    /\ FinalReportLogged(p)
    /\ Holds(FileSink(p), "StartedAt", DEBUG)
    /\ CountOf(FileSink(p), "ArgTrace") = 6


(***************************************************************************)
(* The operator's interrupt.                                              *)
(***************************************************************************)
\* where the single interrupt of p's run arrived
InterruptedOnceAt(p, places) == Len(intrAt[p]) = 1 /\ intrAt[p][1] \in places

FirstIndexOf(p, m) ==
  IF Logged(p, m) THEN CHOOSE i \in 1..Len(logged[p]) :
                         /\ logged[p][i].msg = m
                         /\ \A j \in 1..(i - 1) : logged[p][j].msg # m
  ELSE 0

\* C24: on the interrupt path (the handler of KeyboardInterrupt has logged
\* the banner of a user abort and no further interrupt arrives) the final
\* report is logged after the banner, and the process then ends with status 0
C24_AbortThenReportThenExit ==
  \A p \in Procs :
    Exited(p) /\ Logged(p, "AbortedByUser") /\ Len(intrAt[p]) = 1 =>
      /\ FinalReportLogged(p)
      /\ FirstIndexOf(p, "AbortedByUser") < FirstIndexOf(p, "ProcessingTime")
      /\ FirstIndexOf(p, "ProcessingTime") < FirstIndexOf(p, "CompletedBanner")
      /\ exitStatus[p] = <<EXIT_OK>>


(***************************************************************************)
(* Errors of the library call in PNG2ICO and Video2Gif.                   *)
(***************************************************************************)
\* C25: in PNG2ICO and Video2Gif an exception raised by the library call is
\* caught inside GenerateIcoFile / GenerateGifFile and logged once, at ERROR,
\* with the name of the source file; it does not reach main, whose 'General
\* Error' branch is not entered, and main then logs 'Generated <destFile>'
C25_LibraryErrorSwallowed ==
  \A p \in Procs :
    tool[p] \in {"png", "gif"} /\ libRaised[p] =>
      /\ CountOf(FileSink(p), "ErrorProcessing") = 1
      /\ \A i \in 1..Len(logged[p]) :
           logged[p][i].msg = "ErrorProcessing" =>
             logged[p][i].lvl = ERROR /\ logged[p][i].arg = args[p][1].pos[1]
      /\ exc[p] # "Exception"
      /\ ~Logged(p, "GeneralError")
      /\ pc[p] \in {"finally", "exited"} /\ intrAt[p] = <<>> =>
           \E i \in 1..Len(logged[p]) :
             /\ logged[p][i] = Rec(CRITICAL, "Generated", destFile[p])
             /\ FirstIndexOf(p, "ErrorProcessing") < i

\* a PNG2ICO run whose library call raised has ended after 'Generated'
C25_Witness ==
  \E p \in Procs :
    /\ tool[p] = "png"
    /\ libRaised[p]
    /\ Exited(p)
    /\ intrAt[p] = <<>>
    /\ Logged(p, "ErrorProcessing")
    /\ Logged(p, "Generated")


(***************************************************************************)
(* The module style between Config and the generate function.             *)
(***************************************************************************)
\* C26: in a QR tool, once Config has been constructed its module style is
\* one of the five style constants, exactly one branch of the generate
\* function's if/elif chain matches it, and every image the tool has saved
\* was made by that branch's drawer (qr_img is bound when it is saved)
C26_StyleAlwaysRendered ==
  \A p \in Procs :
    tool[p] \in QRTools /\ objConfig[p] # Unbound =>
      LET style == objConfig[p][1].ModuleStyle
          Five == {"SquareModuleDrawer", "GappedSquareModuleDrawer", "VerticalBarsDrawer",
                   "HorizontalBarsDrawer", "RoundedModuleDrawer"}
      IN  /\ style \in Five
          /\ Cardinality({b \in StyleConstants : b = style}) = 1
          /\ ModuleDrawer(style) \in Five
          /\ pc[p] = "success" => srcOk[p] /\ ArtifactsOf(p) # {}
          /\ \A w \in ArtifactsOf(p) : w.data.style = ModuleDrawer(style)
          /\ exc[p] = "Exception" => ~srcOk[p]

\* a URL run whose configuration names a style that is not recognised has
\* saved its image with the square drawer
C26_Witness ==
  \E p \in Procs :
    /\ tool[p] = "url"
    /\ cfgFile[p].ModuleStyle = <<"c","i","r","c","l","e">>
    /\ pc[p] = "success"
    /\ \E w \in ArtifactsOf(p) : w.data.style = "SquareModuleDrawer"


(***************************************************************************)
(* The WiFi password and the log.                                         *)
(***************************************************************************)
\* the passwords tried on the command line of the WiFi tool
Passwords == {<<"s","e","c","r","e","t","1","2","3">>, <<"h","u","n","t","e","r","2">>}

\* two invocations of the WiFi tool that differ at most in the password
InitSecret ==
  /\ tool = [p \in Procs |-> "wifi"]
  /\ \E v \in {<<>>, <<OptV>>} :
       \E pw \in [Procs -> Passwords] :
         argv = [p \in Procs |-> <<CfgPath, <<"H","o","m","e","N","e","t">>, pw[p]>> \o v]
  /\ cfgFile = [p \in Procs |-> GoodCfg]
  /\ srcOk = [p \in Procs |-> TRUE]
  /\ dirs = {}
  /\ pc = [p \in Procs |-> "import"]
  /\ InitProc
  /\ fn = NoFn

SpecSecret == InitSecret /\ [][NextConc]_vars

\* the password p's run was given on the command line
PasswordOf(p) == argv[p][3]

\* C27: once a WiFi run has logged its start report, its log file exists on
\* disk and holds the password of the command line in clear text, at
\* CRITICAL, both as the 'Wifi Password' line and inside the echoed command
\* line, with and without --verbose; two runs that differ in the password
\* therefore have different log contents
C27_PasswordInLog ==
  /\ \A p \in Procs :
       StartReportDone(p) =>
         /\ \E w \in writes : w.path = LOG_FILENAME(p) /\ w.by = p
         /\ \E i \in 1..Len(FileSink(p)) :
              FileSink(p)[i] = Rec(CRITICAL, "WifiPassword", PasswordOf(p))
         /\ \E i \in 1..Len(FileSink(p)) :
              /\ FileSink(p)[i].msg = "CommandLine"
              /\ FileSink(p)[i].lvl = CRITICAL
              /\ Contains(FileSink(p)[i].arg, PasswordOf(p))
  /\ \A p, q \in Procs :
       StartReportDone(p) /\ StartReportDone(q) /\ PasswordOf(p) # PasswordOf(q)
         => FileSink(p) # FileSink(q)

\* two runs without --verbose, given different passwords, have both logged
\* their start report
C27_Witness ==
  /\ \A p \in Procs : StartReportDone(p) /\ ~Verbose(p)
  /\ PasswordOf(1) # PasswordOf(2)
  /\ Holds(FileSink(1), "WifiPassword", CRITICAL)


(***************************************************************************)
(* The contact card's Config, over missing keys and destination names.    *)
(***************************************************************************)
\* the largest number of keys left out of a configuration file
MaxMissing == 2

\* the keys a configuration file may lack: those the contact card's Config
\* reads, and one it does not read
CardKeyUniverse == KeysRead("card") \cup {"Border"}

\* the --destfile values tried
CardDestInputs ==
  Strs({"a", ".", "/"}, MaxDestLen) \cup {<<"c","a","r","d",".","p","n","g">>, DEFAULT_QRCODE_FILENAME}

\* either keys are left out of the file, or a --destfile value is given
InitCardConfig ==
  /\ InitIdle
  /\ \E missing \in {m \in SUBSET CardKeyUniverse : Cardinality(m) <= MaxMissing} :
       \E d \in CardDestInputs :
         /\ missing = {} \/ d = DEFAULT_QRCODE_FILENAME
         /\ fn = [op |-> "cardconfig", t |-> "card",
                  in |-> [missing |-> missing, destfile |-> d], out |-> <<>>]

\* Config(configFile, destFile) of the contact-card tool
ApplyCardConfig ==
  /\ fn.op = "cardconfig"
  /\ fn.out = <<>>
  /\ LET r == ConfigInit("card", Cfg(TRUE, fn.in.missing, <<"R","o","u","n","d","e","d">>),
                         fn.in.destfile, StrftimeSecond(AnInstant))
     IN  fn' = [fn EXCEPT !.out =
                  <<IF r.ok
                    THEN [ok |-> TRUE, note |-> r.config.note,
                          destFile |-> r.config.destFile,
                          destFileTimestamp |-> r.config.destFileTimestamp,
                          logs |-> r.logs]
                    ELSE [ok |-> FALSE, note |-> <<>>, destFile |-> <<>>,
                          destFileTimestamp |-> <<>>, logs |-> <<>>]>>]
  /\ UNCHANGED idle

NextCardConfig == ApplyCardConfig

SpecCardConfig == InitCardConfig /\ [][NextCardConfig]_vars

\* C28: the contact card's Config constructs with an empty note when the
\* configuration lacks the 'Note' key (and with the file's note when it has
\* it), and fails when the configuration lacks any other key it reads
C28_OnlyNoteOptional ==
  fn.op = "cardconfig" /\ fn.out # <<>> =>
    LET m == fn.in.missing
        Required == {"FrontColor.r", "FrontColor.g", "FrontColor.b",
                     "BackColor.r", "BackColor.g", "BackColor.b", "Size",
                     "ModuleStyle", "FirstName", "LastName", "Title",
                     "Organization", "Phone", "Email", "Url"}
    IN  /\ fn.out[1].ok <=> (m \cap Required = {})
        /\ fn.out[1].ok /\ "Note" \in m => fn.out[1].note = <<>>
        /\ fn.out[1].ok /\ "Note" \notin m => fn.out[1].note = NOTE_TEXT

\* a configuration without 'Note' has been constructed, with an empty note
C28_Witness ==
  /\ fn.op = "cardconfig"
  /\ fn.in.missing = {"Note"}
  /\ fn.out # <<>>
  /\ fn.out[1].ok
  /\ fn.out[1].note = <<>>

\* the position of the first "." of s (0 if none)
FirstDot(s) ==
  IF \E i \in 1..Len(s) : s[i] = "."
  THEN CHOOSE i \in 1..Len(s) : s[i] = "." /\ \A j \in 1..(i - 1) : s[j] # "."
  ELSE 0

\* the first two "."-separated components of a string that has a "."
Component0(s) == SubSeq(s, 1, FirstDot(s) - 1)
Component1(s) ==
  LET rest == SubSeq(s, FirstDot(s) + 1, Len(s))
  IN  IF FirstDot(rest) = 0 THEN rest ELSE SubSeq(rest, 1, FirstDot(rest) - 1)

\* C29: for a --destfile value with a ".", the contact card's Config keeps
\* the value as the stable name and names the timestamped file
\* <p0>_<fileStamp>.<p1>, p0 and p1 being the value's first two
\* "."-separated components; for a value without ".", construction succeeds,
\* both names come from 'vcard_qr.png' and one ERROR record is logged
C29_CardDestNames ==
  fn.op = "cardconfig" /\ fn.out # <<>> /\ fn.in.missing = {} =>
    LET d == fn.in.destfile
        stamp == StrftimeSecond(AnInstant)
        o == fn.out[1]
    IN  /\ o.ok
        /\ FirstDot(d) # 0 =>
             /\ o.destFile = d
             /\ o.destFileTimestamp =
                  Component0(d) \o <<"_">> \o stamp \o <<".">> \o Component1(d)
             /\ o.logs = <<>>
        /\ FirstDot(d) = 0 =>
             /\ o.destFile = <<"v","c","a","r","d","_","q","r",".","p","n","g">>
             /\ o.destFileTimestamp = <<"v","c","a","r","d","_","q","r","_">> \o stamp \o <<".","p","n","g">>
             /\ o.logs = <<Rec(ERROR, "InvalidDestinationFilename", d)>>

\* a --destfile value without "." has been replaced by the default names
C29_Witness ==
  /\ fn.op = "cardconfig"
  /\ fn.in.destfile = <<"a","a">>
  /\ fn.out # <<>>
  /\ fn.out[1].destFile = <<"v","c","a","r","d","_","q","r",".","p","n","g">>
  /\ Len(fn.out[1].logs) = 1


(***************************************************************************)
(* A --destfile value that names the extension (PNG2ICO, Video2Gif).      *)
(***************************************************************************)
\* C30: a --destfile value of at least 5 characters that contains '.ico'
\* (PNG2ICO) or '.gif' (Video2Gif) anywhere is the destination, unchanged,
\* also where the extension is not at its end or the value has directory
\* components; a value that has the extension only in another case does not
\* contain it and is not used
C30_DestfileUsedUnchanged ==
  fn.op = "dest" /\ fn.out # <<>> =>
    LET d == fn.in.destfile
        ext == IF fn.t = "png" THEN <<".","i","c","o">> ELSE <<".","g","i","f">>
    IN  /\ Len(d) >= 5 /\ Contains(d, ext) => fn.out[1] = d
        /\ ~Contains(d, ext) => fn.out[1] # d

\* 'my.ico.bak', which has the extension before its end, is the destination
C30_Witness ==
  /\ fn.op = "dest"
  /\ fn.t = "png"
  /\ fn.in.destfile = <<"m","y",".","i","c","o",".","b","a","k">>
  /\ fn.out = <<<<"m","y",".","i","c","o",".","b","a","k">>>>

====
